---- MODULE Spec2Model ----
(***************************************************************************)
(* Verification model of the surveillance appliance's orchestration core:  *)
(*   - SurveillanceService (scripts/orchestration/surveillance_service.py) *)
(*     the capture scheduler, the health-check thread and stop();          *)
(*   - ProcessingQueue / DynamicGPUMonitor                                 *)
(*     (scripts/orchestration/process_videos_orchestrator.py).             *)
(*                                                                         *)
(* Time is the wall clock in whole seconds since local midnight.  Threads  *)
(* compute in zero time: the clock advances only when every thread is      *)
(* blocked in a sleep or a timed wait, and then to the earliest deadline.  *)
(* All orders of the steps that fall on one instant are explored.          *)
(***************************************************************************)
EXTENDS Integers, Sequences, FiniteSets, TLC

\* ------------------------------------------------------------------------
\* Bounds of the model
\* ------------------------------------------------------------------------
MaxTime == 2250        \* the clock stops advancing after this second
MaxProcs == 3          \* capture processes that can exist at once (then Popen fails)
MaxSignals == 1        \* SIGTERM/SIGINT deliveries to the service
TermLatency == 25      \* a capture process may take this long to act on SIGTERM
MaxJobs == 2           \* videos enqueued
MaxMinWorkers == 2     \* largest min_workers
MaxMaxWorkers == 3     \* largest max_workers
MaxScaleUps == 1       \* readings of the GPU that let the monitor add a worker
MaxRunners == 2        \* analysis runners started
MaxStateRows == 1      \* state changes the runners log
MaxWall == 2           \* seconds of the runners' clock
MaxFiles == 2          \* .mp4 files under the videos directory
MaxRows == 1           \* session rows in the database when videos are discovered
MaxBatchSize == 2      \* largest batch_size of a BatchDatabaseWriter
MaxAdds == 5           \* add_division_state / add_table_state calls
MaxFailures == 2       \* inserts or commits the store refuses
BATCH_SIZE == 1        \* records per batch upload (1000 at line 49 of sync_to_supabase.py)
MaxEventRows == 3      \* rows of table_states when the replicator starts
MaxOtherRows == 1      \* rows of videos, of sessions and of division_states
MaxSyncRuns == 2       \* runs of the replicator, one hour apart
MaxRawDirs == 3        \* camera folders under videos/ when smart_cleanup starts
MaxResultDirs == 1     \* date folders under results/
MaxTarget == 3         \* largest target_free_gb, with folders of 1 GB
MaxMidnights == 1      \* midnights that pass while smart_cleanup runs
MaxDuration == 6       \* largest --duration of a recorder run, in seconds
MaxSegment == 3        \* largest --segment-duration, in seconds
MaxMigrations == 2     \* runs of migrate_database.py on one store
PipeCapacity == 2      \* writes a pipe buffer takes before it is full
MaxFinalized == 3      \* finalized segments on disk, dated before today
MaxRunnerFailures == 2 \* analysis runners that end abnormally
MaxStopSeconds == 4    \* seconds one call of stop() may last (scaled)
TicksPerSecond == 2    \* resolution of current_time
MaxTrackTime == 5      \* ticks of current_time a video is followed for

\* ------------------------------------------------------------------------
\* Program constants of the service
\* ------------------------------------------------------------------------
TickSeconds == 30              \* time.sleep(30) at the end of a scheduler pass
StopTimeout == 30              \* _stop_capture_process(timeout=30)
KillWait == 5                  \* wait(timeout=5) after kill()
MismatchPause == 2             \* time.sleep(2) after a window-mismatch stop
HEALTH_CHECK_INTERVAL == 1800  \* monitoring_intervals.health_check_seconds
PROCESS_START_HOUR == 0        \* processing_window.start_hour
PROCESS_END_HOUR == 23         \* processing_window.end_hour
ProcStopTimeout == 10          \* processing_process.wait(timeout=10) in stop()
JoinTimeout == 5               \* thread.join(timeout=5) in stop()

\* ------------------------------------------------------------------------
\* Program constants of the orchestrator
\* ------------------------------------------------------------------------
GPU_CHECK_INTERVAL == 30
EMERGENCY_COOLDOWN == 120            \* time.sleep(120) after an emergency
TEMP_SCALE_UP_THRESHOLD == 70
TEMP_SCALE_DOWN_THRESHOLD == 75
TEMP_EMERGENCY_THRESHOLD == 80
GPU_UTIL_SCALE_UP_THRESHOLD == 70
GPU_UTIL_SCALE_DOWN_THRESHOLD == 85
MIN_MEMORY_FREE == 20                \* MIN_MEMORY_FREE_GB = 2.0, in tenths of a GB
SCALE_DOWN_MEMORY_FREE == 10         \* the 1.0 of should_scale_down, in tenths
SCALE_COOLDOWN_SECONDS == 60

VARIABLES
    now,                      \* wall clock, seconds since midnight of day 0
    CAPTURE_WINDOWS,          \* the configured capture windows (a sequence)
    pc, ret, wake,            \* per thread: position, return label, deadline
    running,                  \* self.running
    capture_process,          \* self.capture_process: 0 (None) or a process id
    current_capture_window,   \* self.current_capture_window
    capture_lock,             \* self.capture_lock: "free" or the holder
    proc,                     \* capture processes ever spawned, by id
    processing_process,       \* self.processing_process: none/alive/dead/stuck
    pid_file,                 \* PID_FILE: none / self / other_live / other_denied / stale
    schedNow,                 \* scheduler_loop's local `now`
    schedActive,              \* scheduler_loop's local `active_window`
    svcWin,                   \* start_video_capture's local `window`, per thread
    scpStart, scpHandle,      \* _stop_capture_process: entry time, waited handle
    status,                   \* health_check's local `status`
    sigCount, sigAt,          \* signals delivered; where main was at the first
    stopCtx,                  \* who called the running stop(): none/handler/finally
    sinceExit,                \* history: scheduler passes since the capture exited by itself
    \* is_in_capture_window on its own: configuration, clock, returned window
    win_windows, win_hour, win_minute, win_second, win_pc, win_result,
    \* process_with_queue: the ProcessingQueue, its workers and its GPU monitor
    min_workers, max_workers,
    n_jobs,                   \* number of videos found
    job_queue,                \* the jobs waiting in the PriorityQueue
    unfinished_tasks,         \* the PriorityQueue's count of puts not yet task_done
    current_worker_count,
    stop_event,
    jobs_completed, jobs_failed,
    worker,                   \* worker threads: worker_id, position, job in hand
    handed,                   \* history: calls of process_job per job
    since_scale,              \* time.time() - last_scale_time, up to the cooldown
    scale_ups,                \* history: workers added by the monitor
    since_emergency,          \* history: time since the last emergency reading, up to the cooldown
    gpu_pc,                   \* position of the GPU monitoring thread
    q_pc,                     \* position of process_with_queue
    \* the analysis runner (table_and_region_state_detection.py) and its database
    sessions,                 \* rows of the sessions table
    division_states,          \* rows of division_states, in order of id
    table_states,             \* rows of table_states, in order of id
    runner,                   \* the runner processes
    wall,                     \* datetime.now(), in seconds
    \* discover_videos: its inputs, its locals and its result
    video_files,              \* the .mp4 files under videos_dir
    today,                    \* datetime.now().strftime("%Y%m%d")
    session_rows,             \* rows of the sessions table: camera_id, video_file
    db_state,                 \* what reading the database gave: ok / missing / error
    camera_filter,            \* the --cameras argument ({} when not given)
    processed_videos,         \* result of get_processed_videos
    videos_by_camera,         \* result of discover_videos
    d_pc,                     \* position of discover_videos
    \* BatchDatabaseWriter (batch_db_writer.py) and the store behind its connection
    batch_size,
    division_states_buffer, table_states_buffer,
    total_division_inserts, total_table_inserts, total_commits,
    stored_division_states,   \* committed rows of division_states, in order of id
    stored_table_states,      \* committed rows of table_states, in order of id
    added_division,           \* history: arguments of the add_division_state calls
    added_table,              \* history: arguments of the add_table_state calls
    last_call,                \* history: the method called last
    transaction,              \* rows inserted on the connection and not committed
    last_commit,              \* history: rows the last commit made visible
    raised,                   \* history: the last call ended with an exception
    failures,                 \* history: calls that ended with an exception
    \* SupabaseSyncManager (sync_to_supabase.py), one process per run
    sync_now,                 \* datetime.now(), in hours
    local_db,                 \* rows of the four local tables, in order of id
    sync_pc,                  \* position of the run
    sync_mode,                \* --mode
    records,                  \* rows fetched by the SELECT of the table in hand
    batch_start,              \* i of _upload_in_batches (-1 before the SELECT)
    total_uploaded,           \* local of _upload_in_batches
    stats,                    \* self.stats
    sync_status,              \* the row log_sync_status wrote in this run
    sync_runs,                \* history: runs started
    batch_log,                \* history: the batches of this run and what became of them
    deleted_rows,             \* history: rows cleanup_synced_data deleted, and when
    supabase_env,             \* SUPABASE_URL and SUPABASE_ANON_KEY are both set
    sync_returncode,          \* exit status of the last replicator process, -1: none
    sync_report,              \* what sync_database logged about the last run
    \* smart_cleanup (check_disk_space.py) and the folders under videos/ and results/
    k_today,                  \* the date of datetime.now(), as a day number
    raw_folders,              \* videos/<date>/<camera> folders: date, camera
    result_folders,           \* results/<date> folders
    free_gb,                  \* current['free_gb']
    target_free_gb,
    dry_run,
    total_freed_gb,
    date_queue,               \* date folders the loop in hand has still to visit
    k_pc,                     \* position of smart_cleanup
    midnights,                \* history: midnights passed
    k_deleted,                \* history: raw folders deleted, with the date of the day
    \* DirectFFmpegCapture.capture_video (capture_rtsp_streams.py), one camera
    duration_seconds,         \* the argument of capture_video
    segment_duration,         \* self.segment_duration
    session_clock,            \* time.time() - self.session_start_time
    current_segment,          \* self.current_segment
    is_capturing,             \* self.is_capturing
    ffmpeg_process,           \* self.ffmpeg_process: "none" / "running" / "ended"
    c_pc,                     \* position of capture_video
    ffmpeg_cmds,              \* history: the ffmpeg commands started
    \* DatabaseMigrator (migrate_database.py) and the store it migrates
    store,                    \* detection_data.db: tables, columns, rows
    store_at_start,           \* history: the store when the run in hand began
    schema_file,              \* SCHEMA_PATH.exists()
    backup,                   \* self.backup
    backup_written,           \* the backup copy of the run in hand exists
    migrations,               \* runs so far
    m_pc,                     \* position of run()
    \* the long-running child processes and where their output goes
    children,                 \* per child: state, stdout/stderr target, bytes buffered
    \* orchestrator runs over the finalized segments
    o_sessions,               \* per segment: its sessions row ("none", "open", "closed")
    o_emitted,                \* segments discover_videos emitted in this run
    o_runner,                 \* per segment: position of the runner working on it
    o_failures,               \* history: runners that ended abnormally
    o_pc,                     \* the orchestrator: "idle", "processing"
    \* the restart command of the controller
    old_instance,             \* "none", "running", "stop_handler", "stop_finally", "exited"
    old_stop_step,            \* where its stop() is: "capture", "processing", "join", "unlink"
    old_children,             \* its child processes that are alive
    old_stop_elapsed,         \* seconds the old instance's stop() has lasted
    restart_pid_file,         \* PID_FILE: "none", "old", "new"
    restart_pc,               \* the controller: "kill", "sleep", "start", "serving", "refused"
    restart_slept,            \* seconds of time.sleep(2) gone by
    \* Table and DivisionStateTracker over the frames of a video
    track_clock,              \* current_time of the last frame, in ticks
    tracked_table,            \* a Table: state, pending_state, pending_state_start, counts, state_transitions
    division_tracker,         \* the DivisionStateTracker
    table_hist,               \* history: state determined last, since when, last return value
    division_hist             \* history: the same for the division

svcVars == <<now, CAPTURE_WINDOWS, pc, ret, wake, running, capture_process,
             current_capture_window, capture_lock, proc, processing_process, pid_file, schedNow, schedActive, svcWin,
             scpStart, scpHandle, status, sigCount, sigAt, stopCtx,
             sinceExit>>

winVars == <<win_windows, win_hour, win_minute, win_second, win_pc, win_result>>

qVars == <<min_workers, max_workers, n_jobs, job_queue, unfinished_tasks,
           current_worker_count, stop_event, jobs_completed, jobs_failed,
           worker, handed, since_scale, scale_ups, since_emergency, gpu_pc,
           q_pc>>

rVars == <<sessions, division_states, table_states, runner, wall>>

dVars == <<video_files, today, session_rows, db_state, camera_filter,
           processed_videos, videos_by_camera, d_pc>>

bVars == <<batch_size, division_states_buffer, table_states_buffer,
           total_division_inserts, total_table_inserts, total_commits,
           stored_division_states, stored_table_states, added_division,
           added_table, last_call, transaction, last_commit, raised,
           failures>>

sVars == <<sync_now, local_db, sync_pc, sync_mode, records, batch_start,
           total_uploaded, stats, sync_status, sync_runs, batch_log,
           deleted_rows, supabase_env, sync_returncode, sync_report>>

kVars == <<k_today, raw_folders, result_folders, free_gb, target_free_gb,
           dry_run, total_freed_gb, date_queue, k_pc, midnights, k_deleted>>

cVars == <<duration_seconds, segment_duration, session_clock,
           current_segment, is_capturing, ffmpeg_process, c_pc, ffmpeg_cmds>>

mVars == <<store, store_at_start, schema_file, backup, backup_written,
           migrations, m_pc>>

pVars == <<children>>

oVars == <<o_sessions, o_emitted, o_runner, o_failures, o_pc>>

xVars == <<old_instance, old_stop_step, old_children, old_stop_elapsed, restart_pid_file, restart_pc,
           restart_slept>>

tVars == <<track_clock, tracked_table, division_tracker, table_hist,
           division_hist>>

vars == <<svcVars, winVars, qVars, rVars, dVars, bVars, sVars, kVars, cVars,
          mVars, pVars, oVars, xVars, tVars>>

\* what the steps of one part leave alone
notSvcVars == <<winVars, qVars, rVars, dVars, bVars, sVars, kVars, cVars,
                mVars, pVars, oVars, xVars, tVars>>
notWinVars == <<svcVars, qVars, rVars, dVars, bVars, sVars, kVars, cVars,
                mVars, pVars, oVars, xVars, tVars>>
notQVars == <<svcVars, winVars, rVars, dVars, bVars, sVars, kVars, cVars,
              mVars, pVars, oVars, xVars, tVars>>
notRVars == <<svcVars, winVars, qVars, dVars, bVars, sVars, kVars, cVars,
              mVars, pVars, oVars, xVars, tVars>>
notDVars == <<svcVars, winVars, qVars, rVars, bVars, sVars, kVars, cVars,
              mVars, pVars, oVars, xVars, tVars>>
notBVars == <<svcVars, winVars, qVars, rVars, dVars, sVars, kVars, cVars,
              mVars, pVars, oVars, xVars, tVars>>
notSVars == <<svcVars, winVars, qVars, rVars, dVars, bVars, kVars, cVars,
              mVars, pVars, oVars, xVars, tVars>>
notKVars == <<svcVars, winVars, qVars, rVars, dVars, bVars, sVars, cVars,
              mVars, pVars, oVars, xVars, tVars>>
notCVars == <<svcVars, winVars, qVars, rVars, dVars, bVars, sVars, kVars,
              mVars, pVars, oVars, xVars, tVars>>
notMVars == <<svcVars, winVars, qVars, rVars, dVars, bVars, sVars, kVars,
              cVars, pVars, oVars, xVars, tVars>>
notPVars == <<svcVars, winVars, qVars, rVars, dVars, bVars, sVars, kVars,
              cVars, mVars, oVars, xVars, tVars>>
notOVars == <<svcVars, winVars, qVars, rVars, dVars, bVars, sVars, kVars,
              cVars, mVars, pVars, xVars, tVars>>
notXVars == <<svcVars, winVars, qVars, rVars, dVars, bVars, sVars, kVars,
              cVars, mVars, pVars, oVars, tVars>>
notTVars == <<svcVars, winVars, qVars, rVars, dVars, bVars, sVars, kVars,
              cVars, mVars, pVars, oVars, xVars>>

Threads == {"main", "health"}

\* ------------------------------------------------------------------------
\* Capture windows and the clock
\* ------------------------------------------------------------------------
Window(sh, sm, eh, em) ==
    [start_hour |-> sh, start_minute |-> sm, end_hour |-> eh, end_minute |-> em]

NoneW == Window(-1, -1, -1, -1)

\* Schedules used by the service model: two windows a day, like the default
\* 11:30-14:00 / 17:30-22:00, placed in the first hour so that both fit in
\* the modelled period.  The first is back to back, the second has a gap of
\* one minute.
WindowConfigs ==
    { << Window(0, 1, 0, 30), Window(0, 30, 0, 36) >>,
      << Window(0, 1, 0, 2),  Window(0, 3, 0, 36) >> }

StartTimes == {50, 70}

Hour(t) == (t \div 3600) % 24
Minute(t) == (t \div 60) % 60
StartTotalMinutes(w) == w.start_hour * 60 + w.start_minute
EndTotalMinutes(w) == w.end_hour * 60 + w.end_minute
CurrentTotalMinutes(t) == Hour(t) * 60 + Minute(t)

\* a window that takes its end minute in
InWindowClosed(w, t) ==
    StartTotalMinutes(w) <= CurrentTotalMinutes(t)
        /\ CurrentTotalMinutes(t) <= EndTotalMinutes(w)

\* line 207: start_total_minutes <= current_total_minutes < end_total_minutes
InWindow(w, t) ==
    StartTotalMinutes(w) <= CurrentTotalMinutes(t)
        /\ CurrentTotalMinutes(t) < EndTotalMinutes(w)

RECURSIVE FirstWindow(_, _, _)
FirstWindow(ws, t, i) ==
    IF i > Len(ws) THEN NoneW
    ELSE IF InWindow(ws[i], t) THEN ws[i]
    ELSE FirstWindow(ws, t, i + 1)

\* is_in_capture_window: the window returned, NoneW for (False, None)
is_in_capture_window(ws, t) == FirstWindow(ws, t, 1)

\* is_in_time_window(start_hour, end_hour)
is_in_time_window(start_hour, end_hour, t) ==
    IF start_hour < end_hour
    THEN start_hour <= Hour(t) /\ Hour(t) <= end_hour
    ELSE Hour(t) >= start_hour \/ Hour(t) < end_hour

\* end_time = now.replace(hour=end_hour, minute=end_minute, second=0)
EndTime(w, t) == (t \div 86400) * 86400 + EndTotalMinutes(w) * 60

\* ------------------------------------------------------------------------
\* Processes
\* ------------------------------------------------------------------------
ProcIds == 1..MaxProcs

NoProc == [st |-> "unborn", term |-> FALSE, waited |-> FALSE, kill |-> FALSE,
           exitAt |-> -1, win |-> NoneW]

\* Popen.poll() is None
Alive(p) == p # 0 /\ proc[p].st \in {"alive", "stuck"}

ProcessingAlive == processing_process \in {"alive", "stuck"}

Min(S) == CHOOSE x \in S : \A y \in S : x <= y

\* Process ids not in use: never spawned, or exited and no longer referenced
FreeIds == {p \in ProcIds : proc[p].st = "unborn"}

\* An exited process that neither self.capture_process (cp) nor the waiting
\* _stop_capture_process (sh) refers to is forgotten: its id is free again.
Collect(pr, cp, sh) ==
    [p \in ProcIds |-> IF pr[p].st = "dead" /\ p \notin {cp, sh} THEN NoProc ELSE pr[p]]

\* ------------------------------------------------------------------------
\* Thread bookkeeping
\* ------------------------------------------------------------------------
MainDone == pc["main"] \in {"refused", "exited"}

StartLabels == {"start", "start_processing"}
SchedLabels == {"sched_top", "sched_sleep", "sched_cmp", "sched_after_end",
                "sched_after_mismatch", "sched_pause", "sched_proc"}
ScpLabels == {"scp_check", "scp_term", "scp_wait", "scp_waiting", "scp_poll",
              "scp_kill", "scp_wait2", "scp_waiting2"}
SvcLabels == {"svc_enter", "svc_exit"}
StopLabels == {"stop_begin", "stop_proc", "stop_proc_waiting", "stop_proc_waiting2",
               "stop_join", "stop_joining_others", "stop_joining_health",
               "stop_unlink"}

\* Where the main thread is when a signal interrupts it: before the try of
\* start() ("start"), inside the try of scheduler_loop ("try"), in its
\* time.sleep(30) ("sleep"), or in the stop() of start()'s finally ("finally").
Region ==
    IF stopCtx = "finally" THEN "finally"
    ELSE IF pc["main"] \in StartLabels
            \/ (pc["main"] \in SvcLabels /\ ret["main"] = "start_processing")
         THEN "start"
    ELSE IF pc["main"] = "sched_sleep" THEN "sleep"
    ELSE "try"

\* A thread that can take no step before its deadline (or at all).
Blocked(t) ==
    \/ pc[t] \in {"sched_sleep", "sched_pause", "stop_joining_others", "h_sleep"}
          /\ now < wake[t]
    \/ pc[t] \in {"scp_waiting", "scp_waiting2"} /\ Alive(scpHandle) /\ now < wake[t]
    \/ pc[t] \in {"stop_proc_waiting", "stop_proc_waiting2"}
          /\ ProcessingAlive /\ now < wake[t]
    \/ pc[t] = "stop_joining_health" /\ pc["health"] # "h_exit" /\ now < wake[t]
    \/ pc[t] = "svc_enter" /\ capture_lock # "free"
    \/ pc[t] \in {"unstarted", "h_exit", "refused", "exited"}

Timed(t) ==
    pc[t] \in {"sched_sleep", "sched_pause", "stop_joining_others", "h_sleep",
               "scp_waiting", "scp_waiting2", "stop_proc_waiting",
               "stop_proc_waiting2", "stop_joining_health"}

\* ------------------------------------------------------------------------
\* start_video_capture / start_video_processing
\* ------------------------------------------------------------------------
\* a start_video_capture that skips the test of line 317
CaptureAlreadyRunningUnchecked == FALSE

\* line 317: self.capture_process and self.capture_process.poll() is None
CaptureAlreadyRunning == Alive(capture_process)

\* start_video_capture up to and including Popen (lines 310-347), under
\* capture_lock.  Popen raises once MaxProcs processes exist.
SvcEnter(t) ==
    /\ pc[t] = "svc_enter"
    /\ capture_lock = "free"
    /\ LET w == is_in_capture_window(CAPTURE_WINDOWS, now) IN
       IF w = NoneW \/ CaptureAlreadyRunning \/ EndTime(w, now) <= now
             \/ FreeIds = {}
       THEN /\ pc' = [pc EXCEPT ![t] = ret[t]]
            /\ ret' = [ret EXCEPT ![t] = "none"]
            /\ UNCHANGED <<capture_process, proc, capture_lock, svcWin>>
       ELSE /\ proc' = Collect([proc EXCEPT ![Min(FreeIds)] =
                                   [NoProc EXCEPT !.st = "alive", !.win = w]],
                               Min(FreeIds), scpHandle)
            /\ capture_process' = Min(FreeIds)
            /\ capture_lock' = t
            /\ svcWin' = [svcWin EXCEPT ![t] = w]
            /\ pc' = [pc EXCEPT ![t] = "svc_exit"]
            /\ UNCHANGED ret
    /\ UNCHANGED <<now, CAPTURE_WINDOWS, wake, running, current_capture_window,
                   processing_process, pid_file, schedNow, schedActive,
                   scpStart, scpHandle, status, sigCount, sigAt, stopCtx>>
    /\ sinceExit' = IF pc'[t] = "svc_exit" THEN 0 ELSE sinceExit
    /\ UNCHANGED notSvcVars

\* line 348: self.current_capture_window = window, then the lock is released
SvcExit(t) ==
    /\ pc[t] = "svc_exit"
    /\ capture_lock = t
    /\ current_capture_window' = svcWin[t]
    /\ capture_lock' = "free"
    /\ svcWin' = [svcWin EXCEPT ![t] = NoneW]
    /\ pc' = [pc EXCEPT ![t] = ret[t]]
    /\ ret' = [ret EXCEPT ![t] = "none"]
    /\ UNCHANGED <<now, CAPTURE_WINDOWS, wake, running, capture_process,
                   proc, processing_process, pid_file, schedNow,
                   schedActive, scpStart, scpHandle, status, sigCount,
                   sigAt, stopCtx, sinceExit>>
    /\ UNCHANGED notSvcVars

\* start_video_processing (lines 357-384): the value of processing_process after it
StartVideoProcessing ==
    IF is_in_time_window(PROCESS_START_HOUR, PROCESS_END_HOUR, now)
          /\ ~ProcessingAlive
    THEN "alive"
    ELSE processing_process

\* ------------------------------------------------------------------------
\* start()
\* ------------------------------------------------------------------------
\* What the PID file names when start() reads it: "stale" a pid no process
\* has; "other_live" a process os.kill(old_pid, 0) may signal; "other_denied"
\* a live process of another user, for which os.kill raises PermissionError,
\* a subclass of OSError.
LivePidFiles == {"other_live", "other_denied"}

\* lines 559-605: PID file check (os.kill succeeds: return False; except
\* OSError: unlink), PID file write, running = True, the monitoring threads
\* are started, start_video_capture when inside a window
Start ==
    /\ pc["main"] = "start"
    /\ IF pid_file = "other_live"
       THEN /\ pc' = [pc EXCEPT !["main"] = "refused"]
            /\ UNCHANGED <<pid_file, running, ret>>
       ELSE /\ pid_file' = "self"
            /\ running' = TRUE
            /\ IF is_in_capture_window(CAPTURE_WINDOWS, now) # NoneW
               THEN /\ pc' = [pc EXCEPT !["main"] = "svc_enter", !["health"] = "h_status"]
                    /\ ret' = [ret EXCEPT !["main"] = "start_processing"]
               ELSE /\ pc' = [pc EXCEPT !["main"] = "start_processing",
                                        !["health"] = "h_status"]
                    /\ UNCHANGED ret
    /\ UNCHANGED <<now, CAPTURE_WINDOWS, wake, capture_process,
                   current_capture_window, capture_lock, proc,
                   processing_process, schedNow, schedActive, svcWin, scpStart,
                   scpHandle, status, sigCount, sigAt, stopCtx, sinceExit>>
    /\ UNCHANGED notSvcVars

\* lines 607-612
StartProcessing ==
    /\ pc["main"] = "start_processing"
    /\ processing_process' =
          IF is_in_time_window(PROCESS_START_HOUR, PROCESS_END_HOUR, now)
          THEN StartVideoProcessing ELSE processing_process
    /\ pc' = [pc EXCEPT !["main"] = "sched_top"]
    /\ UNCHANGED <<now, CAPTURE_WINDOWS, ret, wake, running, capture_process,
                   current_capture_window, capture_lock, proc, pid_file, schedNow, schedActive, svcWin, scpStart, scpHandle,
                   status, sigCount, sigAt, stopCtx, sinceExit>>
    /\ UNCHANGED notSvcVars

\* ------------------------------------------------------------------------
\* _stop_capture_process (lines 212-273); every read of self.capture_process
\* is a step of its own, the health-check thread may assign it in between
\* ------------------------------------------------------------------------
\* a wait that overruns its timeout
WaitDeadlineLate(timeout) == now + timeout + 10

\* the deadline of a wait(timeout=...) started now
WaitDeadline(timeout) == now + timeout

\* return from _stop_capture_process; pr is the process table at that point
ScpReturn(pr) ==
    /\ pc' = [pc EXCEPT !["main"] = ret["main"]]
    /\ ret' = [ret EXCEPT !["main"] = "none"]
    /\ wake' = [wake EXCEPT !["main"] = 0]
    /\ scpStart' = 0
    /\ scpHandle' = 0
    /\ proc' = Collect(pr, capture_process, 0)

\* line 226
ScpCheck ==
    /\ pc["main"] = "scp_check"
    /\ IF ~Alive(capture_process)
       THEN ScpReturn(proc)
       ELSE /\ pc' = [pc EXCEPT !["main"] = "scp_term"]
            /\ UNCHANGED <<ret, wake, scpStart, scpHandle, proc>>
    /\ UNCHANGED <<now, CAPTURE_WINDOWS, running, capture_process,
                   current_capture_window, capture_lock,
                   processing_process, pid_file, schedNow, schedActive, svcWin,
                   status, sigCount, sigAt, stopCtx, sinceExit>>
    /\ UNCHANGED notSvcVars

\* line 236: self.capture_process.terminate().  The process acts on the
\* signal after TermLatency seconds, or not at all (it may still exit by
\* itself at any time).
ScpTerm ==
    /\ pc["main"] = "scp_term"
    /\ LET p == capture_process IN
       IF Alive(p)
       THEN \E d \in {-1, now + TermLatency} :
               proc' = [proc EXCEPT ![p].term = TRUE,
                                    ![p].exitAt = IF proc[p].exitAt >= 0
                                                  THEN proc[p].exitAt ELSE d]
       ELSE UNCHANGED proc
    /\ pc' = [pc EXCEPT !["main"] = "scp_wait"]
    /\ UNCHANGED <<now, CAPTURE_WINDOWS, ret, wake, running, capture_process,
                   current_capture_window, capture_lock,
                   processing_process, pid_file, schedNow, schedActive, svcWin,
                   scpStart, scpHandle, status, sigCount, sigAt, stopCtx, sinceExit>>
    /\ UNCHANGED notSvcVars

\* line 241: self.capture_process.wait(timeout=timeout) begins
ScpWait ==
    /\ pc["main"] = "scp_wait"
    /\ scpHandle' = capture_process
    /\ wake' = [wake EXCEPT !["main"] = WaitDeadline(StopTimeout)]
    /\ pc' = [pc EXCEPT !["main"] = "scp_waiting"]
    /\ UNCHANGED <<now, CAPTURE_WINDOWS, ret, running, capture_process,
                   current_capture_window, capture_lock, proc,
                   processing_process, pid_file, schedNow, schedActive, svcWin,
                   scpStart, status, sigCount, sigAt, stopCtx, sinceExit>>
    /\ UNCHANGED notSvcVars

\* lines 241-246: the wait returns (return True) or raises TimeoutExpired
ScpWaited ==
    /\ pc["main"] = "scp_waiting"
    /\ IF ~Alive(scpHandle)
       THEN ScpReturn(proc)
       ELSE /\ now >= wake["main"]
            /\ proc' = [proc EXCEPT ![scpHandle].waited = TRUE]
            /\ pc' = [pc EXCEPT !["main"] = "scp_poll"]
            /\ wake' = [wake EXCEPT !["main"] = 0]
            /\ scpHandle' = 0
            /\ UNCHANGED <<ret, scpStart>>
    /\ UNCHANGED <<now, CAPTURE_WINDOWS, running, capture_process,
                   current_capture_window, capture_lock,
                   processing_process, pid_file, schedNow, schedActive, svcWin,
                   status, sigCount, sigAt, stopCtx, sinceExit>>
    /\ UNCHANGED notSvcVars

\* line 254: if self.capture_process.poll() is None
ScpPoll ==
    /\ pc["main"] = "scp_poll"
    /\ IF Alive(capture_process)
       THEN /\ pc' = [pc EXCEPT !["main"] = "scp_kill"]
            /\ UNCHANGED <<ret, wake, scpStart, scpHandle, proc>>
       ELSE ScpReturn(proc)
    /\ UNCHANGED <<now, CAPTURE_WINDOWS, running, capture_process,
                   current_capture_window, capture_lock,
                   processing_process, pid_file, schedNow, schedActive, svcWin,
                   status, sigCount, sigAt, stopCtx, sinceExit>>
    /\ UNCHANGED notSvcVars

\* line 256: self.capture_process.kill().  The kernel ends the process at
\* once, unless it is in uninterruptible sleep ("stuck": it stays alive).
ScpKill ==
    /\ pc["main"] = "scp_kill"
    /\ LET p == capture_process IN
       IF Alive(p)
       THEN \E s \in {"dead", "stuck"} :
               proc' = [proc EXCEPT ![p].kill = TRUE,
                                    ![p].exitAt = -1,
                                    ![p].st = IF proc[p].st = "stuck" THEN "stuck" ELSE s]
       ELSE UNCHANGED proc
    /\ pc' = [pc EXCEPT !["main"] = "scp_wait2"]
    /\ UNCHANGED <<now, CAPTURE_WINDOWS, ret, wake, running, capture_process,
                   current_capture_window, capture_lock,
                   processing_process, pid_file, schedNow, schedActive, svcWin,
                   scpStart, scpHandle, status, sigCount, sigAt, stopCtx, sinceExit>>
    /\ UNCHANGED notSvcVars

\* line 260: self.capture_process.wait(timeout=5) begins
ScpWait2 ==
    /\ pc["main"] = "scp_wait2"
    /\ scpHandle' = capture_process
    /\ wake' = [wake EXCEPT !["main"] = WaitDeadline(KillWait)]
    /\ pc' = [pc EXCEPT !["main"] = "scp_waiting2"]
    /\ UNCHANGED <<now, CAPTURE_WINDOWS, ret, running, capture_process,
                   current_capture_window, capture_lock, proc,
                   processing_process, pid_file, schedNow, schedActive, svcWin,
                   scpStart, status, sigCount, sigAt, stopCtx, sinceExit>>
    /\ UNCHANGED notSvcVars

\* lines 260-265: return True, or return False after TimeoutExpired
ScpWaited2 ==
    /\ pc["main"] = "scp_waiting2"
    /\ ~Alive(scpHandle) \/ now >= wake["main"]
    /\ ScpReturn(proc)
    /\ UNCHANGED <<now, CAPTURE_WINDOWS, running, capture_process,
                   current_capture_window, capture_lock,
                   processing_process, pid_file, schedNow, schedActive, svcWin,
                   status, sigCount, sigAt, stopCtx, sinceExit>>
    /\ UNCHANGED notSvcVars

\* ------------------------------------------------------------------------
\* scheduler_loop (lines 492-557)
\* ------------------------------------------------------------------------
\* line 539: current_hour == start_hour and current_minute == start_minute
StartMinuteMatch(w, t) ==
    Hour(t) = w.start_hour /\ Minute(t) = w.start_minute

\* lines 534-541: start_video_capture when the sampled minute is the start
\* minute of a window; t is the scheduler's `now`
SchedStart(t) ==
    IF \E i \in 1..Len(CAPTURE_WINDOWS) : StartMinuteMatch(CAPTURE_WINDOWS[i], t)
    THEN /\ pc' = [pc EXCEPT !["main"] = "svc_enter"]
         /\ ret' = [ret EXCEPT !["main"] = "sched_proc"]
    ELSE /\ pc' = [pc EXCEPT !["main"] = "sched_proc"]
         /\ ret' = [ret EXCEPT !["main"] = "none"]

\* lines 496-509 (and 534-541 when no capture process runs): the sleep is
\* over; while self.running; now = datetime.now(); poll; window check.
\* When the loop ends, start()'s finally calls stop().
SchedTop ==
    /\ \/ pc["main"] = "sched_top"
       \/ pc["main"] = "sched_sleep" /\ now >= wake["main"]
    /\ wake' = [wake EXCEPT !["main"] = 0]
    /\ IF ~running
       THEN /\ pc' = [pc EXCEPT !["main"] = "stop_begin"]
            /\ stopCtx' = "finally"
            /\ UNCHANGED <<schedNow, schedActive, ret>>
       ELSE /\ schedNow' = now
            /\ stopCtx' = stopCtx
            /\ IF Alive(capture_process)
               THEN /\ schedActive' = is_in_capture_window(CAPTURE_WINDOWS, now)
                    /\ pc' = [pc EXCEPT !["main"] = "sched_cmp"]
                    /\ UNCHANGED ret
               ELSE /\ SchedStart(now)
                    /\ UNCHANGED schedActive
    /\ UNCHANGED <<now, CAPTURE_WINDOWS, running, capture_process,
                   current_capture_window, capture_lock, proc,
                   processing_process, pid_file, svcWin, scpStart, scpHandle,
                   status, sigCount, sigAt>>
    /\ sinceExit' = IF ~running THEN sinceExit
                    ELSE IF sinceExit >= 1 /\ ~InWindow(proc[capture_process].win, now) THEN 0
                    ELSE IF sinceExit = 1 THEN 2
                    ELSE sinceExit
    /\ UNCHANGED notSvcVars

\* lines 511-529: window ended, or window mismatch: _stop_capture_process
SchedCmp ==
    /\ pc["main"] = "sched_cmp"
    /\ IF schedActive = NoneW
       THEN /\ pc' = [pc EXCEPT !["main"] = "scp_check"]
            /\ ret' = [ret EXCEPT !["main"] = "sched_after_end"]
            /\ scpStart' = now
       ELSE IF schedActive # current_capture_window
       THEN /\ pc' = [pc EXCEPT !["main"] = "scp_check"]
            /\ ret' = [ret EXCEPT !["main"] = "sched_after_mismatch"]
            /\ scpStart' = now
       ELSE /\ SchedStart(schedNow)
            /\ UNCHANGED scpStart
    /\ schedActive' = NoneW
    /\ UNCHANGED <<now, CAPTURE_WINDOWS, wake, running, capture_process,
                   current_capture_window, capture_lock, proc,
                   processing_process, pid_file, schedNow, svcWin,
                   scpHandle, status, sigCount, sigAt, stopCtx, sinceExit>>
    /\ UNCHANGED notSvcVars

\* line 519, then lines 534-541
SchedAfterEnd ==
    /\ pc["main"] = "sched_after_end"
    /\ current_capture_window' = NoneW
    /\ SchedStart(schedNow)
    /\ UNCHANGED <<now, CAPTURE_WINDOWS, wake, running, capture_process,
                   capture_lock, proc, processing_process, pid_file,
                   schedNow, schedActive, svcWin, scpStart, scpHandle, status,
                   sigCount, sigAt, stopCtx, sinceExit>>
    /\ UNCHANGED notSvcVars

\* lines 530-531
SchedAfterMismatch ==
    /\ pc["main"] = "sched_after_mismatch"
    /\ current_capture_window' = NoneW
    /\ wake' = [wake EXCEPT !["main"] = now + MismatchPause]
    /\ pc' = [pc EXCEPT !["main"] = "sched_pause"]
    /\ UNCHANGED <<now, CAPTURE_WINDOWS, ret, running, capture_process,
                   capture_lock, proc, processing_process, pid_file,
                   schedNow, schedActive, svcWin, scpStart, scpHandle, status,
                   sigCount, sigAt, stopCtx, sinceExit>>
    /\ UNCHANGED notSvcVars

\* the pause is over: lines 534-541
SchedPauseDone ==
    /\ pc["main"] = "sched_pause"
    /\ now >= wake["main"]
    /\ wake' = [wake EXCEPT !["main"] = 0]
    /\ SchedStart(schedNow)
    /\ UNCHANGED <<now, CAPTURE_WINDOWS, running, capture_process,
                   current_capture_window, capture_lock, proc,
                   processing_process, pid_file, schedNow, schedActive, svcWin,
                   scpStart, scpHandle, status, sigCount, sigAt, stopCtx, sinceExit>>
    /\ UNCHANGED notSvcVars

\* a scheduler that sleeps two periods between passes
NextTickSlow == now + TickSeconds + TickSeconds

\* line 557: time.sleep(30) started now
NextTick == now + TickSeconds

\* lines 544-557: processing start at its start hour, then time.sleep(30)
SchedProc ==
    /\ pc["main"] = "sched_proc"
    /\ processing_process' =
          IF Hour(schedNow) = PROCESS_START_HOUR /\ Minute(schedNow) = 0
          THEN StartVideoProcessing ELSE processing_process
    /\ wake' = [wake EXCEPT !["main"] = NextTick]
    /\ schedNow' = 0
    /\ pc' = [pc EXCEPT !["main"] = "sched_sleep"]
    /\ UNCHANGED <<now, CAPTURE_WINDOWS, ret, running, capture_process,
                   current_capture_window, capture_lock, proc,
                   pid_file, schedActive, svcWin, scpStart, scpHandle,
                   status, sigCount, sigAt, stopCtx>>
    /\ sinceExit' = IF sinceExit = 2 THEN 3 ELSE sinceExit
    /\ UNCHANGED notSvcVars

\* ------------------------------------------------------------------------
\* stop() (lines 618-654) and signal_handler (lines 169-173)
\* ------------------------------------------------------------------------
\* lines 623-629
StopBegin ==
    /\ pc["main"] = "stop_begin"
    /\ running' = FALSE
    /\ IF Alive(capture_process)
       THEN /\ pc' = [pc EXCEPT !["main"] = "scp_check"]
            /\ ret' = [ret EXCEPT !["main"] = "stop_proc"]
            /\ scpStart' = now
       ELSE /\ pc' = [pc EXCEPT !["main"] = "stop_proc"]
            /\ UNCHANGED <<ret, scpStart>>
    /\ UNCHANGED <<now, CAPTURE_WINDOWS, wake, capture_process,
                   current_capture_window, capture_lock, proc, processing_process, pid_file, schedNow, schedActive, svcWin,
                   scpHandle, status, sigCount, sigAt, stopCtx, sinceExit>>
    /\ UNCHANGED notSvcVars

\* lines 632-636: terminate() and wait(timeout=10) begins
StopProc ==
    /\ pc["main"] = "stop_proc"
    /\ IF ProcessingAlive
       THEN /\ wake' = [wake EXCEPT !["main"] = now + ProcStopTimeout]
            /\ pc' = [pc EXCEPT !["main"] = "stop_proc_waiting"]
       ELSE /\ pc' = [pc EXCEPT !["main"] = "stop_join"]
            /\ UNCHANGED wake
    /\ UNCHANGED <<now, CAPTURE_WINDOWS, ret, running, capture_process,
                   current_capture_window, capture_lock, proc, processing_process, pid_file, schedNow, schedActive, svcWin,
                   scpStart, scpHandle, status, sigCount, sigAt, stopCtx, sinceExit>>
    /\ UNCHANGED notSvcVars

\* lines 636-641: stopped gracefully, or TimeoutExpired: kill(), wait(timeout=5)
StopProcWaited ==
    /\ pc["main"] = "stop_proc_waiting"
    /\ IF ~ProcessingAlive
       THEN /\ pc' = [pc EXCEPT !["main"] = "stop_join"]
            /\ wake' = [wake EXCEPT !["main"] = 0]
            /\ UNCHANGED processing_process
       ELSE /\ now >= wake["main"]
            /\ \E s \in {"dead", "stuck"} : processing_process' = s
            /\ wake' = [wake EXCEPT !["main"] = now + KillWait]
            /\ pc' = [pc EXCEPT !["main"] = "stop_proc_waiting2"]
    /\ UNCHANGED <<now, CAPTURE_WINDOWS, ret, running, capture_process,
                   current_capture_window, capture_lock, proc, pid_file, schedNow, schedActive, svcWin, scpStart, scpHandle,
                   status, sigCount, sigAt, stopCtx, sinceExit>>
    /\ UNCHANGED notSvcVars

\* line 641: wait(timeout=5) returns, or its TimeoutExpired leaves stop():
\* raised inside the except clause, it is not caught there.  In the signal
\* handler it reaches the interrupted code: scheduler_loop's except Exception
\* (then time.sleep(30) and the loop ends) or start()'s finally.
StopProcWaited2 ==
    /\ pc["main"] = "stop_proc_waiting2"
    /\ IF ~ProcessingAlive
       THEN /\ pc' = [pc EXCEPT !["main"] = "stop_join"]
            /\ wake' = [wake EXCEPT !["main"] = 0]
            /\ UNCHANGED <<stopCtx, capture_lock>>
       ELSE /\ now >= wake["main"]
            /\ IF stopCtx = "handler" /\ sigAt = "try"
               THEN /\ pc' = [pc EXCEPT !["main"] = "sched_sleep"]
                    /\ wake' = [wake EXCEPT !["main"] = now + TickSeconds]
                    /\ stopCtx' = "none"
               ELSE IF stopCtx = "handler" /\ sigAt = "sleep"
               THEN /\ pc' = [pc EXCEPT !["main"] = "stop_begin"]
                    /\ stopCtx' = "finally"
                    /\ wake' = [wake EXCEPT !["main"] = 0]
               ELSE /\ pc' = [pc EXCEPT !["main"] = "exited"]
                    /\ wake' = [wake EXCEPT !["main"] = 0]
                    /\ UNCHANGED stopCtx
            /\ capture_lock' = IF capture_lock = "main" THEN "free" ELSE capture_lock
    /\ UNCHANGED <<now, CAPTURE_WINDOWS, ret, running, capture_process,
                   current_capture_window, proc, processing_process,
                   pid_file, schedNow, schedActive, svcWin, scpStart, scpHandle,
                   status, sigCount, sigAt, sinceExit>>
    /\ UNCHANGED notSvcVars

\* lines 647-648: join(timeout=5) of DiskMonitor, GPUMonitor and DBSync; each
\* of them has ended or sleeps through the five seconds
StopJoin ==
    /\ pc["main"] = "stop_join"
    /\ \E k \in 0..3 : wake' = [wake EXCEPT !["main"] = now + k * JoinTimeout]
    /\ pc' = [pc EXCEPT !["main"] = "stop_joining_others"]
    /\ UNCHANGED <<now, CAPTURE_WINDOWS, ret, running, capture_process,
                   current_capture_window, capture_lock, proc, processing_process, pid_file, schedNow, schedActive, svcWin,
                   scpStart, scpHandle, status, sigCount, sigAt, stopCtx, sinceExit>>
    /\ UNCHANGED notSvcVars

\* line 648: join(timeout=5) of HealthCheck begins
StopJoinedOthers ==
    /\ pc["main"] = "stop_joining_others"
    /\ now >= wake["main"]
    /\ wake' = [wake EXCEPT !["main"] = now + JoinTimeout]
    /\ pc' = [pc EXCEPT !["main"] = "stop_joining_health"]
    /\ UNCHANGED <<now, CAPTURE_WINDOWS, ret, running, capture_process,
                   current_capture_window, capture_lock, proc, processing_process, pid_file, schedNow, schedActive, svcWin,
                   scpStart, scpHandle, status, sigCount, sigAt, stopCtx, sinceExit>>
    /\ UNCHANGED notSvcVars

StopJoinedHealth ==
    /\ pc["main"] = "stop_joining_health"
    /\ pc["health"] \in {"h_exit", "unstarted"} \/ now >= wake["main"]
    /\ wake' = [wake EXCEPT !["main"] = 0]
    /\ pc' = [pc EXCEPT !["main"] = "stop_unlink"]
    /\ UNCHANGED <<now, CAPTURE_WINDOWS, ret, running, capture_process,
                   current_capture_window, capture_lock, proc,
                   processing_process, pid_file, schedNow, schedActive, svcWin,
                   scpStart, scpHandle, status, sigCount, sigAt, stopCtx, sinceExit>>
    /\ UNCHANGED notSvcVars

\* lines 651-654, and what follows the return of stop(): in the signal
\* handler sys.exit(0), whose SystemExit runs start()'s finally (stop() again)
\* when it interrupted the try; in the finally, start() returns.
StopUnlink ==
    /\ pc["main"] = "stop_unlink"
    /\ pid_file' = "none"
    /\ IF stopCtx = "handler" /\ sigAt \in {"try", "sleep"}
       THEN /\ pc' = [pc EXCEPT !["main"] = "stop_begin"]
            /\ stopCtx' = "finally"
       ELSE /\ pc' = [pc EXCEPT !["main"] = "exited"]
            /\ UNCHANGED stopCtx
    /\ capture_lock' = IF capture_lock = "main" THEN "free" ELSE capture_lock
    /\ UNCHANGED <<now, CAPTURE_WINDOWS, ret, wake, running, capture_process,
                   current_capture_window, proc, processing_process,
                   schedNow, schedActive, svcWin, scpStart, scpHandle, status,
                   sigCount, sigAt, sinceExit>>
    /\ UNCHANGED notSvcVars

\* SIGTERM or SIGINT arrives: signal_handler runs stop() in the main thread,
\* on top of whatever it was doing
Signal ==
    /\ ~MainDone
    /\ Blocked("main") \/ pc["main"] = "start"
    /\ sigCount < MaxSignals
    /\ sigCount' = sigCount + 1
    /\ sigAt' = IF stopCtx = "handler" THEN sigAt ELSE Region
    /\ stopCtx' = "handler"
    /\ pc' = [pc EXCEPT !["main"] = "stop_begin"]
    /\ ret' = [ret EXCEPT !["main"] = "none"]
    /\ wake' = [wake EXCEPT !["main"] = 0]
    /\ schedNow' = 0
    /\ schedActive' = NoneW
    /\ svcWin' = [svcWin EXCEPT !["main"] = NoneW]
    /\ scpStart' = 0
    /\ scpHandle' = 0
    /\ proc' = Collect(proc, capture_process, 0)
    /\ UNCHANGED <<now, CAPTURE_WINDOWS, running, capture_process,
                   current_capture_window, capture_lock,
                   processing_process, pid_file, status, sinceExit>>
    /\ UNCHANGED notSvcVars

\* ------------------------------------------------------------------------
\* health_check (lines 461-490), a daemon thread
\* ------------------------------------------------------------------------
\* lines 463-479: the sleep is over; while self.running; status; restart of
\* the capture when inside a window and status says it is not running
HStatus ==
    /\ ~MainDone
    /\ \/ pc["health"] = "h_status"
       \/ pc["health"] = "h_sleep" /\ now >= wake["health"]
    /\ wake' = [wake EXCEPT !["health"] = 0]
    /\ IF ~running
       THEN /\ pc' = [pc EXCEPT !["health"] = "h_exit"]
            /\ UNCHANGED <<status, ret>>
       ELSE /\ status' = [capture_running |-> Alive(capture_process),
                          processing_running |-> ProcessingAlive]
            /\ IF is_in_capture_window(CAPTURE_WINDOWS, now) # NoneW
                    /\ ~Alive(capture_process)
               THEN /\ pc' = [pc EXCEPT !["health"] = "svc_enter"]
                    /\ ret' = [ret EXCEPT !["health"] = "h_processing"]
               ELSE /\ pc' = [pc EXCEPT !["health"] = "h_processing"]
                    /\ UNCHANGED ret
    /\ UNCHANGED <<now, CAPTURE_WINDOWS, running, capture_process,
                   current_capture_window, capture_lock, proc,
                   processing_process, pid_file, schedNow, schedActive, svcWin,
                   scpStart, scpHandle, sigCount, sigAt, stopCtx, sinceExit>>
    /\ UNCHANGED notSvcVars

\* lines 482-490
HProcessing ==
    /\ ~MainDone
    /\ pc["health"] = "h_processing"
    /\ processing_process' =
          IF is_in_time_window(PROCESS_START_HOUR, PROCESS_END_HOUR, now)
                /\ ~status.processing_running
          THEN StartVideoProcessing ELSE processing_process
    /\ wake' = [wake EXCEPT !["health"] = now + HEALTH_CHECK_INTERVAL]
    /\ status' = [capture_running |-> FALSE, processing_running |-> FALSE]
    /\ pc' = [pc EXCEPT !["health"] = "h_sleep"]
    /\ UNCHANGED <<now, CAPTURE_WINDOWS, ret, running, capture_process,
                   current_capture_window, capture_lock, proc, pid_file,
                   schedNow, schedActive, svcWin, scpStart, scpHandle,
                   sigCount, sigAt, stopCtx, sinceExit>>
    /\ UNCHANGED notSvcVars

\* ------------------------------------------------------------------------
\* The environment: child processes and the clock
\* ------------------------------------------------------------------------
\* A capture process exits: its --duration is over, it crashed, or it acted
\* on SIGTERM.
ProcExit(p) ==
    /\ ~MainDone
    /\ proc[p].st = "alive"
    /\ proc' = Collect([proc EXCEPT ![p].st = "dead", ![p].exitAt = -1],
                       capture_process, scpHandle)
    /\ UNCHANGED <<now, CAPTURE_WINDOWS, pc, ret, wake, running, capture_process,
                   current_capture_window, capture_lock, processing_process, pid_file, schedNow, schedActive, svcWin,
                   scpStart, scpHandle, status, sigCount, sigAt, stopCtx>>
    /\ sinceExit' = IF p = capture_process /\ ~proc[p].term /\ InWindow(proc[p].win, now)
                    THEN 1 ELSE sinceExit
    /\ UNCHANGED notSvcVars

\* The orchestrator process exits (its backlog is done, or it was told to).
ProcessingExit ==
    /\ ~MainDone
    /\ Blocked("main")
    /\ processing_process = "alive"
    /\ processing_process' = "dead"
    /\ UNCHANGED <<now, CAPTURE_WINDOWS, pc, ret, wake, running, capture_process,
                   current_capture_window, capture_lock, proc, pid_file, schedNow, schedActive, svcWin, scpStart, scpHandle,
                   status, sigCount, sigAt, stopCtx, sinceExit>>
    /\ UNCHANGED notSvcVars

Deadlines ==
    {wake[t] : t \in {u \in Threads : Timed(u)}}
        \cup {proc[p].exitAt : p \in {q \in ProcIds : proc[q].st = "alive" /\ proc[q].exitAt >= 0}}

\* The clock moves to the next deadline once every thread is blocked.
Advance ==
    /\ ~MainDone
    /\ \A t \in Threads : Blocked(t)
    /\ Deadlines # {}
    /\ Min(Deadlines) > now
    /\ Min(Deadlines) <= MaxTime
    /\ now' = Min(Deadlines)
    /\ UNCHANGED <<CAPTURE_WINDOWS, pc, ret, wake, running, capture_process,
                   current_capture_window, capture_lock, proc, processing_process, pid_file, schedNow, schedActive, svcWin,
                   scpStart, scpHandle, status, sigCount, sigAt, stopCtx, sinceExit>>
    /\ UNCHANGED notSvcVars

\* ------------------------------------------------------------------------
\* process_videos_orchestrator.py: ProcessingQueue and DynamicGPUMonitor
\* ------------------------------------------------------------------------
\* job ids; the last one is enqueued only by the run of QScaleInit
Jobs == 1..(MaxJobs + 1)

\* job.priority: the video's timestamp; cameras are enqueued one after the
\* other, so the order of enqueueing is not the order of priority
JobPriority(j) == IF j % 2 = 1 THEN 2 ELSE 1

WorkerSlots == 1..(MaxMinWorkers + MaxScaleUps)

NoWorker == [worker_id |-> -1, pc |-> "unborn", job |-> 0]

\* readings of the GPU: temperature (C), utilisation (%), free memory (GB/10)
Metrics ==
    [temperature : {65, 70, 76, 80}, gpu_utilization : {50, 70, 86},
     memory_free : {5, 20, 25}]

\* a should_scale_up without the test against max_workers
should_scale_up_unbounded(m, current_workers) ==
    /\ since_scale >= SCALE_COOLDOWN_SECONDS
    /\ m.temperature < TEMP_SCALE_UP_THRESHOLD
    /\ m.gpu_utilization < GPU_UTIL_SCALE_UP_THRESHOLD
    /\ m.memory_free > MIN_MEMORY_FREE

\* should_scale_up (lines 261-279)
should_scale_up(m, current_workers) ==
    /\ current_workers < max_workers
    /\ since_scale >= SCALE_COOLDOWN_SECONDS
    /\ m.temperature < TEMP_SCALE_UP_THRESHOLD
    /\ m.gpu_utilization < GPU_UTIL_SCALE_UP_THRESHOLD
    /\ m.memory_free > MIN_MEMORY_FREE

\* should_scale_down (lines 281-295)
should_scale_down(m, current_workers) ==
    /\ current_workers > min_workers
    /\ \/ m.temperature > TEMP_SCALE_DOWN_THRESHOLD
       \/ m.gpu_utilization > GPU_UTIL_SCALE_DOWN_THRESHOLD
       \/ m.memory_free < SCALE_DOWN_MEMORY_FREE

\* is_emergency (lines 297-302)
is_emergency(m) == m.temperature >= TEMP_EMERGENCY_THRESHOLD

\* a monitor that looks at the scale-down rule before the emergency rule
GpuDecisionDownFirst(m) ==
    IF should_scale_down(m, current_worker_count) THEN "SCALE_DOWN"
    ELSE IF is_emergency(m) THEN "EMERGENCY"
    ELSE IF should_scale_up(m, current_worker_count) THEN "SCALE_UP"
    ELSE "HOLD"

\* what one turn of _gpu_monitoring_thread does with the reading m
\* (lines 800-830): the emergency test, then scale down, else scale up
GpuDecision(m) ==
    IF is_emergency(m) THEN "EMERGENCY"
    ELSE IF should_scale_down(m, current_worker_count) THEN "SCALE_DOWN"
    ELSE IF should_scale_up(m, current_worker_count) THEN "SCALE_UP"
    ELSE "HOLD"

\* the variables of this part while another part is modelled
QIdle ==
    /\ min_workers = 1 /\ max_workers = 1 /\ n_jobs = 0
    /\ job_queue = {}
    /\ unfinished_tasks = 0
    /\ current_worker_count = 0
    /\ stop_event = FALSE
    /\ jobs_completed = 0 /\ jobs_failed = 0
    /\ worker = [t \in WorkerSlots |-> NoWorker]
    /\ handed = [j \in Jobs |-> 0]
    /\ since_scale = SCALE_COOLDOWN_SECONDS
    /\ scale_ups = 0
    /\ since_emergency = EMERGENCY_COOLDOWN
    /\ gpu_pc = "unstarted"
    /\ q_pc = "idle"

\* DynamicGPUMonitor.__init__ and ProcessingQueue.__init__ (lines 602-629)
QInit ==
    /\ min_workers \in 1..MaxMinWorkers
    /\ max_workers \in min_workers..MaxMaxWorkers
    /\ n_jobs \in 1..MaxJobs
    /\ job_queue = {}
    /\ unfinished_tasks = 0
    /\ current_worker_count = 0
    /\ stop_event = FALSE
    /\ jobs_completed = 0 /\ jobs_failed = 0
    /\ worker = [t \in WorkerSlots |-> NoWorker]
    /\ handed = [j \in Jobs |-> 0]
    /\ since_scale = SCALE_COOLDOWN_SECONDS
    /\ scale_ups = 0
    /\ since_emergency = EMERGENCY_COOLDOWN
    /\ gpu_pc = "unstarted"
    /\ q_pc = "add_jobs"

\* add_job (lines 631-633), called for each video by process_with_queue
AddJob ==
    /\ q_pc = "add_jobs"
    /\ LET j == unfinished_tasks + 1 IN
       IF j <= n_jobs
       THEN /\ job_queue' = job_queue \cup {j}
            /\ unfinished_tasks' = unfinished_tasks + 1
            /\ UNCHANGED q_pc
       ELSE /\ q_pc' = "start_workers"
            /\ UNCHANGED <<job_queue, unfinished_tasks>>
    /\ UNCHANGED <<min_workers, max_workers, n_jobs, current_worker_count,
                   stop_event, jobs_completed, jobs_failed, worker, handed,
                   since_scale, scale_ups, since_emergency, gpu_pc, notQVars>>

\* _add_worker (lines 649-663): a thread named after the present count
AddWorker ==
    /\ \E t \in WorkerSlots :
          /\ worker[t].pc = "unborn"
          /\ \A u \in WorkerSlots : u < t => worker[u].pc # "unborn"
          /\ worker' = [worker EXCEPT ![t] = [worker_id |-> current_worker_count,
                                              pc |-> "loop", job |-> 0]]
    /\ current_worker_count' = current_worker_count + 1
    /\ since_scale' = 0

\* _remove_worker (lines 665-671)
RemoveWorker ==
    /\ IF current_worker_count > min_workers
       THEN /\ current_worker_count' = current_worker_count - 1
            /\ since_scale' = 0
       ELSE UNCHANGED <<current_worker_count, since_scale>>
    /\ UNCHANGED worker

\* start_workers (lines 841-858): the initial workers, one by one
StartWorker ==
    /\ q_pc = "start_workers"
    /\ current_worker_count < min_workers
    /\ AddWorker
    /\ UNCHANGED <<min_workers, max_workers, n_jobs, job_queue, unfinished_tasks,
                   stop_event, jobs_completed, jobs_failed, handed, scale_ups, since_emergency,
                   gpu_pc, q_pc, notQVars>>

\* start_workers, lines 850-858: the GPU monitoring thread, then return
StartMonitor ==
    /\ q_pc = "start_workers"
    /\ current_worker_count >= min_workers
    /\ gpu_pc' = "check"
    /\ q_pc' = "join"
    /\ UNCHANGED <<min_workers, max_workers, n_jobs, job_queue, unfinished_tasks,
                   current_worker_count, stop_event, jobs_completed, jobs_failed,
                   worker, handed, since_scale, scale_ups, since_emergency, notQVars>>

\* ---- _worker_thread (lines 743-774) ----
\* the jobs PriorityQueue.get may return: those of least priority value
QueueHead ==
    {j \in job_queue : \A k \in job_queue : JobPriority(j) <= JobPriority(k)}

\* line 750 (and 761): worker_id >= self.current_worker_count
OverLimit(t) == worker[t].worker_id >= current_worker_count

\* the while test of line 747 and the first over-limit test of line 750
WorkerLoop(t) ==
    /\ worker[t].pc = "loop"
    /\ worker' = [worker EXCEPT ![t].pc =
                     IF stop_event \/ OverLimit(t) THEN "exited" ELSE "get"]
    /\ UNCHANGED <<min_workers, max_workers, n_jobs, job_queue, unfinished_tasks,
                   current_worker_count, stop_event, jobs_completed, jobs_failed,
                   handed, since_scale, scale_ups, since_emergency, gpu_pc, q_pc, notQVars>>

\* a get that leaves the job in the queue
QueueAfterPeek(j) == job_queue

\* the queue once get has returned job j
QueueAfterGet(j) == job_queue \ {j}

\* line 756: job_queue.get(timeout=5) returns a job
WorkerGet(t) ==
    /\ worker[t].pc = "get"
    /\ \E j \in QueueHead :
          /\ job_queue' = QueueAfterGet(j)
          /\ worker' = [worker EXCEPT ![t].pc = "check", ![t].job = j]
    /\ UNCHANGED <<min_workers, max_workers, n_jobs, unfinished_tasks,
                   current_worker_count, stop_event, jobs_completed, jobs_failed,
                   handed, since_scale, scale_ups, since_emergency, gpu_pc, q_pc, notQVars>>

\* lines 757-758: the queue stayed empty for 5 s, queue.Empty, continue
WorkerGetEmpty(t) ==
    /\ worker[t].pc = "get"
    /\ job_queue = {}
    /\ worker' = [worker EXCEPT ![t].pc = "loop"]
    /\ UNCHANGED <<min_workers, max_workers, n_jobs, job_queue, unfinished_tasks,
                   current_worker_count, stop_event, jobs_completed, jobs_failed,
                   handed, since_scale, scale_ups, since_emergency, gpu_pc, q_pc, notQVars>>

\* lines 761-768: put the job back and leave, or call process_job
WorkerCheck(t) ==
    /\ worker[t].pc = "check"
    /\ IF OverLimit(t)
       THEN /\ job_queue' = job_queue \cup {worker[t].job}
            /\ unfinished_tasks' = unfinished_tasks + 1
            /\ worker' = [worker EXCEPT ![t].pc = "exited", ![t].job = 0]
            /\ UNCHANGED handed
       ELSE /\ handed' = [handed EXCEPT ![worker[t].job] = @ + 1]
            /\ worker' = [worker EXCEPT ![t].pc = "process"]
            /\ UNCHANGED <<job_queue, unfinished_tasks>>
    /\ UNCHANGED <<min_workers, max_workers, n_jobs, current_worker_count,
                   stop_event, jobs_completed, jobs_failed, since_scale,
                   scale_ups, since_emergency, gpu_pc, q_pc, notQVars>>

\* exit codes of the detection script
ExitCodes == {0, 1, 2}

\* process_job once subprocess.run has returned (lines 715-732)
process_job(returncode) ==
    IF returncode = 0
    THEN jobs_completed' = jobs_completed + 1 /\ UNCHANGED jobs_failed
    ELSE jobs_failed' = jobs_failed + 1 /\ UNCHANGED jobs_completed

\* process_job returns (lines 708-741), then job_queue.task_done() (line 769)
WorkerProcessed(t) ==
    /\ worker[t].pc = "process"
    /\ \E returncode \in ExitCodes : process_job(returncode)
    /\ unfinished_tasks' = unfinished_tasks - 1
    /\ worker' = [worker EXCEPT ![t].pc = "loop", ![t].job = 0]
    /\ UNCHANGED <<min_workers, max_workers, n_jobs, job_queue,
                   current_worker_count, stop_event, handed, since_scale,
                   scale_ups, since_emergency, gpu_pc, q_pc, notQVars>>

\* ---- _gpu_monitoring_thread (lines 776-839) ----
GpuUnchanged ==
    UNCHANGED <<min_workers, max_workers, n_jobs, job_queue, unfinished_tasks,
                stop_event, jobs_completed, jobs_failed, handed, q_pc, notQVars>>

\* line 780: the while test fails once stop_event is set
GpuStop ==
    /\ gpu_pc = "check"
    /\ stop_event
    /\ gpu_pc' = "stopped"
    /\ UNCHANGED <<current_worker_count, worker, since_scale, scale_ups, since_emergency>>
    /\ GpuUnchanged

\* get_metrics returned None: nothing but the sleep of line 833
GpuNoMetrics ==
    /\ gpu_pc = "check"
    /\ ~stop_event
    /\ gpu_pc' = "sleep"
    /\ UNCHANGED <<current_worker_count, worker, since_scale, scale_ups, since_emergency>>
    /\ GpuUnchanged

\* lines 800-806: an emergency reading.  Here and below the reading is used
\* by the decision only, so that some reading asks for it is a guard.
GpuEmergency ==
    /\ gpu_pc = "check"
    /\ ~stop_event
    /\ (\E m \in Metrics : GpuDecision(m) = "EMERGENCY") = TRUE
    /\ gpu_pc' = "emergency"
    /\ since_emergency' = 0
    /\ UNCHANGED <<current_worker_count, worker, since_scale, scale_ups>>
    /\ GpuUnchanged

\* lines 807-811: one turn of the loop that reduces to min_workers, then
\* time.sleep(120)
GpuEmergencyReduce ==
    /\ gpu_pc = "emergency"
    /\ IF current_worker_count > min_workers
       THEN RemoveWorker /\ UNCHANGED gpu_pc
       ELSE /\ gpu_pc' = "cooldown"
            /\ UNCHANGED <<current_worker_count, worker, since_scale>>
    /\ UNCHANGED <<scale_ups, since_emergency>>
    /\ GpuUnchanged

\* lines 814-820: scale down by one worker
GpuScaleDown ==
    /\ gpu_pc = "check"
    /\ ~stop_event
    /\ (\E m \in Metrics : GpuDecision(m) = "SCALE_DOWN") = TRUE
    /\ RemoveWorker
    /\ gpu_pc' = "sleep"
    /\ UNCHANGED <<scale_ups, since_emergency>>
    /\ GpuUnchanged

\* lines 823-830: scale up by one worker
GpuScaleUp ==
    /\ gpu_pc = "check"
    /\ ~stop_event
    /\ scale_ups < MaxScaleUps
    /\ (\E m \in Metrics : GpuDecision(m) = "SCALE_UP") = TRUE
    /\ AddWorker
    /\ scale_ups' = scale_ups + 1
    /\ UNCHANGED since_emergency
    /\ gpu_pc' = "sleep"
    /\ GpuUnchanged

\* a reading that asks for nothing
GpuHold ==
    /\ gpu_pc = "check"
    /\ ~stop_event
    /\ (\E m \in Metrics : GpuDecision(m) = "HOLD") = TRUE
    /\ gpu_pc' = "sleep"
    /\ UNCHANGED <<current_worker_count, worker, since_scale, scale_ups, since_emergency>>
    /\ GpuUnchanged

\* the time since the last scaling after a sleep of d seconds
Elapsed(d) ==
    IF since_scale + d >= SCALE_COOLDOWN_SECONDS
    THEN SCALE_COOLDOWN_SECONDS ELSE since_scale + d

\* the time since the last emergency reading after a sleep of d seconds
ElapsedEmergency(d) ==
    IF since_emergency + d >= EMERGENCY_COOLDOWN
    THEN EMERGENCY_COOLDOWN ELSE since_emergency + d

\* time.sleep(GPU_CHECK_INTERVAL) (line 833) or time.sleep(120) (line 810) ends
GpuSleepDone ==
    /\ gpu_pc \in {"sleep", "cooldown"}
    /\ LET d == IF gpu_pc = "sleep" THEN GPU_CHECK_INTERVAL
                                     ELSE EMERGENCY_COOLDOWN IN
          /\ since_scale' = Elapsed(d)
          /\ since_emergency' = ElapsedEmergency(d)
    /\ gpu_pc' = "check"
    /\ UNCHANGED <<current_worker_count, worker, scale_ups>>
    /\ GpuUnchanged

\* ---- wait_for_completion (lines 860-867) ----
\* job_queue.join() returns once unfinished_tasks is 0; stop_event.set()
WaitJoin ==
    /\ q_pc = "join"
    /\ unfinished_tasks = 0
    /\ stop_event' = TRUE
    /\ q_pc' = "join_monitor"
    /\ UNCHANGED <<min_workers, max_workers, n_jobs, job_queue, unfinished_tasks,
                   current_worker_count, jobs_completed, jobs_failed, worker,
                   handed, since_scale, scale_ups, since_emergency, gpu_pc, notQVars>>

\* lines 866-867: gpu_monitoring_thread.join(timeout=5), then return
WaitReturn ==
    /\ q_pc = "join_monitor"
    /\ q_pc' = "returned"
    /\ UNCHANGED <<min_workers, max_workers, n_jobs, job_queue, unfinished_tasks,
                   current_worker_count, stop_event, jobs_completed, jobs_failed,
                   worker, handed, since_scale, scale_ups, since_emergency, gpu_pc, notQVars>>

WorkerStep(t) ==
    \/ WorkerLoop(t) \/ WorkerGet(t) \/ WorkerGetEmpty(t)
    \/ WorkerCheck(t) \/ WorkerProcessed(t)

GpuStep ==
    \/ GpuStop \/ GpuNoMetrics \/ GpuEmergency \/ GpuEmergencyReduce
    \/ GpuScaleDown \/ GpuScaleUp \/ GpuHold \/ GpuSleepDone

MainStep == AddJob \/ StartWorker \/ StartMonitor \/ WaitJoin \/ WaitReturn

\* ------------------------------------------------------------------------
\* table_and_region_state_detection.py: the analysis runner and its database
\* ------------------------------------------------------------------------
Runners == 1..MaxRunners

\* Video filenames by what the runner reads in them: the camera_<n> prefix
\* ("" when the name does not begin with one) and whether the name holds a
\* YYYYMMDD_HHMMSS timestamp, as camera_35_20251209_180441.mp4 does and
\* camera_35_clip.mp4 and clip.mp4 do not.
VideoFiles ==
    { [camera |-> "camera_35", has_stamp |-> TRUE],
      [camera |-> "camera_35", has_stamp |-> FALSE],
      [camera |-> "", has_stamp |-> FALSE] }

\* extract_camera_id_from_filename (lines 163-177)
extract_camera_id_from_filename(f) ==
    IF f.camera # "" THEN f.camera ELSE "camera_unknown"

\* lines 1630-1632: the timestamp of the filename (time 0, before the
\* runners' clock starts) or else datetime.now()
session_id_of(f, camera_id) ==
    << IF f.has_stamp THEN 0 ELSE wall, camera_id >>

\* a SELECT that finds nothing
ExistingNone(camera_id, video_filename) == {}

\* lines 1577-1582: SELECT ... WHERE camera_id = ? AND video_file = ?
Existing(camera_id, video_filename) ==
    {row \in sessions :
        row.camera_id = camera_id /\ row.video_file = video_filename}

NoRunner ==
    [pc |-> "idle", video |-> [camera |-> "", has_stamp |-> FALSE],
     camera_id |-> "", session_id |-> <<0, "">>, exit_code |-> -1,
     cause |-> "", had_row |-> FALSE]

\* the variables of this part while another part is modelled
RIdle ==
    /\ sessions = {}
    /\ division_states = <<>>
    /\ table_states = <<>>
    /\ runner = [r \in Runners |-> NoRunner]
    /\ wall = 1

\* an empty database (init_database creates the tables, lines 976-1043)
RInit ==
    /\ sessions = {}
    /\ division_states = <<>>
    /\ table_states = <<>>
    /\ runner = [r \in Runners |-> NoRunner]
    /\ wall = 1

\* the segment has a session row (the value of the history field had_row)
HasSession(camera_id, video_filename) ==
    \E row \in sessions :
        row.camera_id = camera_id /\ row.video_file = video_filename

\* the process ends: its exit code stays, its session_id is gone with it
RunnerExit(r, code, why) ==
    runner' = [runner EXCEPT ![r].pc = "exited", ![r].exit_code = code,
                             ![r].cause = why,
                             ![r].session_id = NoRunner.session_id]

\* python3 table_and_region_state_detection.py --video f  (main, line 1912;
\* process_video line 1488)
RunnerInvoke(r, f) ==
    /\ runner[r].pc = "idle"
    /\ \A q \in Runners : q < r => runner[q].pc # "idle"
    /\ LET camera_id == extract_camera_id_from_filename(f) IN
          runner' = [runner EXCEPT ![r] =
                        [NoRunner EXCEPT !.pc = "main", !.video = f,
                            !.camera_id = camera_id,
                            !.had_row = HasSession(camera_id, f)]]
    /\ UNCHANGED <<sessions, division_states, table_states, wall, notRVars>>

\* no configuration or no models (main returns 1, lines 1957-1968), the
\* video does not open (line 1497) or the db directory is not writable
\* (line 1568)
RunnerAbort(r) ==
    /\ runner[r].pc = "main"
    /\ RunnerExit(r, 1, "environment")
    /\ UNCHANGED <<sessions, division_states, table_states, wall, notRVars>>

\* lines 1574-1598: init_database, the SELECT, and sys.exit(2) on a row
RunnerCheck(r) ==
    /\ runner[r].pc = "main"
    /\ IF Existing(runner[r].camera_id, runner[r].video) # {}
       THEN RunnerExit(r, 2, "duplicate")
       ELSE runner' = [runner EXCEPT ![r].pc = "checked"]
    /\ UNCHANGED <<sessions, division_states, table_states, wall, notRVars>>

\* lines 1615-1620: the output file cannot be created
RunnerNoOutput(r) ==
    /\ runner[r].pc = "checked"
    /\ RunnerExit(r, 1, "output")
    /\ UNCHANGED <<sessions, division_states, table_states, wall, notRVars>>

\* lines 1629-1640: INSERT INTO sessions and commit; session_id is the
\* PRIMARY KEY, a second row with the same session_id raises IntegrityError
RunnerInsert(r) ==
    /\ runner[r].pc = "checked"
    /\ LET sid == session_id_of(runner[r].video, runner[r].camera_id) IN
          IF \E row \in sessions : row.session_id = sid
          THEN /\ RunnerExit(r, 1, "integrity")
               /\ UNCHANGED sessions
          ELSE /\ sessions' = sessions \cup
                      {[session_id |-> sid, camera_id |-> runner[r].camera_id,
                        video_file |-> runner[r].video, end_time |-> 0]}
               /\ runner' = [runner EXCEPT ![r].pc = "inserted",
                                            ![r].session_id = sid]
    /\ UNCHANGED <<division_states, table_states, wall, notRVars>>

\* lines 1655-1660: the first frame cannot be read
RunnerNoFrame(r) ==
    /\ runner[r].pc = "inserted"
    /\ RunnerExit(r, 1, "frame")
    /\ UNCHANGED <<sessions, division_states, table_states, wall, notRVars>>

\* log_division_state_change (lines 1069-1080), called at line 1800
RunnerLogDivision(r) ==
    /\ runner[r].pc = "inserted"
    /\ Len(division_states) + Len(table_states) < MaxStateRows
    /\ division_states' = Append(division_states,
                                 [session_id |-> runner[r].session_id,
                                  camera_id |-> runner[r].camera_id])
    /\ UNCHANGED <<sessions, table_states, runner, wall, notRVars>>

\* log_table_state_change (lines 1083-1094), called at line 1790
RunnerLogTable(r) ==
    /\ runner[r].pc = "inserted"
    /\ Len(division_states) + Len(table_states) < MaxStateRows
    /\ table_states' = Append(table_states,
                              [session_id |-> runner[r].session_id,
                               camera_id |-> runner[r].camera_id])
    /\ UNCHANGED <<sessions, division_states, runner, wall, notRVars>>

\* lines 1824-1831 and 1909: UPDATE sessions SET end_time, then return True,
\* or an exception of the loop or of the re-encoding goes up to the top
RunnerFinish(r) ==
    /\ runner[r].pc = "inserted"
    /\ sessions' = {IF row.session_id = runner[r].session_id
                    THEN [row EXCEPT !.end_time = wall] ELSE row
                    : row \in sessions}
    /\ \E code \in {0, 1} : RunnerExit(r, code, "finished")
    /\ UNCHANGED <<division_states, table_states, wall, notRVars>>

\* a second of the clock passes
RTick ==
    /\ wall < MaxWall
    /\ \E r \in Runners : runner[r].pc \notin {"idle", "exited"}
    /\ wall' = wall + 1
    /\ UNCHANGED <<sessions, division_states, table_states, runner, notRVars>>

RunnerStep(r) ==
    \/ \E f \in VideoFiles : RunnerInvoke(r, f)
    \/ RunnerAbort(r) \/ RunnerCheck(r) \/ RunnerNoOutput(r)
    \/ RunnerInsert(r) \/ RunnerNoFrame(r)
    \/ RunnerLogDivision(r) \/ RunnerLogTable(r) \/ RunnerFinish(r)

\* ------------------------------------------------------------------------
\* process_videos_orchestrator.py: discover_videos
\* ------------------------------------------------------------------------
\* Dates are numbered from the day before the run: 1 is yesterday, 2 is
\* today, 3 is tomorrow; 0 stands for no date.
Days == 1..3

\* A file videos_dir/<dir>/.../<camera>_<date>_<time>.mp4 by what
\* discover_videos reads in its path: the YYYYMMDD directory (0: none), the
\* camera_<n> prefix of the name ("": none) and the YYYYMMDD_HHMMSS
\* timestamp of the name (date 0: none).
Stamps == { <<0, 0>>, <<1, 1>>, <<1, 2>>, <<2, 1>> }

Basenames ==
    { [camera |-> c, date |-> st[1], time |-> st[2]] :
          c \in {"camera_35", ""}, st \in Stamps }

AllVideoFiles ==
    { [dir |-> d, name |-> n] : d \in {0} \cup Days, n \in Basenames }

\* the subsets of U with n elements or fewer
RECURSIVE SubsetsUpTo(_, _)
SubsetsUpTo(U, n) ==
    IF n = 0 THEN {{}}
    ELSE LET P == SubsetsUpTo(U, n - 1) IN
         P \cup {ss \cup {x} : ss \in P, x \in U}

\* extract_camera_id (lines 465-470); "" stands for None
extract_camera_id(video_filename) == video_filename.camera

\* orchestrator's extract_date_from_path (lines 440-458); 0 stands for None
extract_date_from_path(f) ==
    IF f.dir # 0 THEN f.dir
    ELSE IF f.name.date # 0 THEN f.name.date
    ELSE 0

\* extract_timestamp (lines 473-478): the default sorts first
extract_timestamp(video_filename) ==
    IF video_filename.date # 0
    THEN <<video_filename.date, video_filename.time>>
    ELSE <<0, 0>>

\* order of the strings YYYYMMDD_HHMMSS
StampLeq(a, b) == a[1] < b[1] \/ (a[1] = b[1] /\ a[2] <= b[2])

\* the rows a runner writes for a file of this name (lines 1488, 1634)
SessionRowOf(n) ==
    [camera_id |-> IF n.camera # "" THEN n.camera ELSE "camera_unknown",
     video_file |-> n]

\* the variables of this part while another part is modelled
DIdle ==
    /\ video_files = {}
    /\ today = 2
    /\ session_rows = {}
    /\ db_state = "ok"
    /\ camera_filter = {}
    /\ processed_videos = {}
    /\ videos_by_camera = << >>
    /\ d_pc = "idle"

\* the files on disk and the rows of the database when discover_videos is
\* called; today is read at line 504
DInit ==
    /\ video_files \in SubsetsUpTo(AllVideoFiles, MaxFiles)
    /\ today = 2
    /\ session_rows \in SubsetsUpTo({SessionRowOf(n) : n \in Basenames}, MaxRows)
    /\ db_state = "ok"
    /\ camera_filter = {}
    /\ processed_videos = {}
    /\ videos_by_camera = << >>
    /\ d_pc = "call"

\* get_processed_videos (lines 401-437): the video_file column of sessions,
\* or the empty set when the database file is missing or sqlite3 fails
get_processed_videos(state) ==
    IF state = "ok" THEN {row.video_file : row \in session_rows} ELSE {}

GetProcessedVideos ==
    /\ d_pc = "call"
    /\ \E state \in {"ok", "missing", "error"} :
          /\ state = "missing" => session_rows = {}
          /\ db_state' = state
          /\ processed_videos' = get_processed_videos(state)
    /\ d_pc' = "scan"
    /\ UNCHANGED <<video_files, today, session_rows, camera_filter,
                   videos_by_camera, notDVars>>

\* lines 520-555: the tests a file passes to be added to the list
Added(f, filter) ==
    /\ extract_camera_id(f.name) # ""
    /\ filter # {} => extract_camera_id(f.name) \in filter
    /\ extract_date_from_path(f) # today
    /\ extract_date_from_path(f) # 0
    /\ f.name \notin processed_videos

\* the sequences that hold each element of S once
RECURSIVE Perms(_)
Perms(S) ==
    IF S = {} THEN {<< >>}
    ELSE UNION {{<<x>> \o q : q \in Perms(S \ {x})} : x \in S}

\* lines 559-560: list.sort by extract_timestamp; files with equal
\* timestamps stay in the order rglob found them, which is any order
SortedByTimestamp(S) ==
    {q \in Perms(S) :
        \A i, j \in 1..Len(q) :
            i < j => StampLeq(extract_timestamp(q[i].name),
                              extract_timestamp(q[j].name))}

\* discover_videos (lines 481-571) once processed_videos is known
DiscoverVideos ==
    /\ d_pc = "scan"
    /\ \E filter \in {{}, {"camera_35"}} :
          LET added == {f \in video_files : Added(f, filter)}
              cams == {extract_camera_id(f.name) : f \in added}
              of(c) == {f \in added : extract_camera_id(f.name) = c}
          IN /\ camera_filter' = filter
             /\ \E g \in [cams -> UNION {SortedByTimestamp(of(c)) : c \in cams}] :
                   /\ \A c \in cams : g[c] \in SortedByTimestamp(of(c))
                   /\ videos_by_camera' = g
    /\ d_pc' = "done"
    /\ UNCHANGED <<video_files, today, session_rows, db_state,
                   processed_videos, notDVars>>

\* ------------------------------------------------------------------------
\* batch_db_writer.py: BatchDatabaseWriter and the sqlite3 connection it
\* writes to
\* ------------------------------------------------------------------------
\* arguments of one add call: the frame number counts the calls
DivisionArgs(n) ==
    { [frame_number |-> n, walking_waiters |-> w, service_waiters |-> 1] :
          w \in {0, 2} }

TableArgs(n) ==
    { [frame_number |-> n, table_id |-> t] : t \in {"T1", "T2"} }

\* the tuple add_division_state appends (lines 100-114)
DivisionRow(a) ==
    [frame_number |-> a.frame_number, walking_waiters |-> a.walking_waiters,
     service_waiters |-> a.service_waiters,
     total_staff |-> a.walking_waiters + a.service_waiters]

\* the tuple add_table_state appends (lines 154-166)
TableRow(a) == [frame_number |-> a.frame_number, table_id |-> a.table_id]

\* a connection with no statement executed since the last commit
EmptyTransaction == [division |-> << >>, table |-> << >>]

\* the variables of this part while another part is modelled
BIdle ==
    /\ batch_size = 1
    /\ division_states_buffer = << >> /\ table_states_buffer = << >>
    /\ total_division_inserts = 0 /\ total_table_inserts = 0
    /\ total_commits = 0
    /\ stored_division_states = << >> /\ stored_table_states = << >>
    /\ added_division = << >> /\ added_table = << >>
    /\ last_call = "idle"
    /\ transaction = EmptyTransaction /\ last_commit = 0 /\ raised = FALSE
    /\ failures = 0

\* BatchDatabaseWriter.__init__ (lines 48-66) on empty tables
BInit ==
    /\ batch_size \in 1..MaxBatchSize
    /\ division_states_buffer = << >> /\ table_states_buffer = << >>
    /\ total_division_inserts = 0 /\ total_table_inserts = 0
    /\ total_commits = 0
    /\ stored_division_states = << >> /\ stored_table_states = << >>
    /\ added_division = << >> /\ added_table = << >>
    /\ last_call = "init"
    /\ transaction = EmptyTransaction /\ last_commit = 0 /\ raised = FALSE
    /\ failures = 0

\* a test that lets the buffer grow to batch_size
BatchReachedLate(buffer) == Len(buffer) > batch_size

\* lines 117 and 169: len(buffer) >= self.batch_size
BatchReached(buffer) == Len(buffer) >= batch_size

\* What executemany and commit can do with a buffer: "ok" inserts every row
\* and commits; "insert" raises at row rows + 1 (a constraint, a full disk, a
\* locked database) with the rows before it left in the open transaction,
\* sqlite3 undoing only the statement that failed; "commit" inserts every
\* row and raises in conn.commit(), the transaction staying open.
StoreOutcomes(kinds, buffer) ==
    { o \in [kind : IF failures < MaxFailures THEN kinds ELSE kinds \cap {"ok"},
              rows : 0..Len(buffer)] :
         IF o.kind = "insert" THEN o.rows < Len(buffer)
                              ELSE o.rows = Len(buffer) }

\* the writer and its connection as one value
Writer ==
    [division_states_buffer |-> division_states_buffer,
     table_states_buffer |-> table_states_buffer,
     total_division_inserts |-> total_division_inserts,
     total_table_inserts |-> total_table_inserts,
     total_commits |-> total_commits,
     stored_division_states |-> stored_division_states,
     stored_table_states |-> stored_table_states,
     transaction |-> transaction, last_commit |-> last_commit,
     raised |-> FALSE]

\* conn.commit() (lines 186 and 209): every row of the open transaction
\* becomes visible, whichever flush inserted it
commit(w) ==
    [w EXCEPT !.stored_division_states = @ \o w.transaction.division,
              !.stored_table_states = @ \o w.transaction.table,
              !.last_commit = Len(w.transaction.division)
                                + Len(w.transaction.table),
              !.transaction = EmptyTransaction]

\* flush_division_states (lines 172-193): executemany, commit, statistics,
\* clear; an exception leaves the method before the lines after it
flush_division_states(w, o) ==
    IF w.division_states_buffer = << >> THEN w
    ELSE LET buffer == w.division_states_buffer
             inserted == [w EXCEPT !.transaction.division =
                                       @ \o SubSeq(buffer, 1, o.rows)]
         IN IF o.kind = "ok"
            THEN [commit(inserted) EXCEPT
                     !.total_division_inserts = @ + Len(buffer),
                     !.total_commits = @ + 1,
                     !.division_states_buffer = << >>]
            ELSE [inserted EXCEPT !.raised = TRUE]

\* flush_table_states (lines 195-216)
flush_table_states(w, o) ==
    IF w.table_states_buffer = << >> THEN w
    ELSE LET buffer == w.table_states_buffer
             inserted == [w EXCEPT !.transaction.table =
                                       @ \o SubSeq(buffer, 1, o.rows)]
         IN IF o.kind = "ok"
            THEN [commit(inserted) EXCEPT
                     !.total_table_inserts = @ + Len(buffer),
                     !.total_commits = @ + 1,
                     !.table_states_buffer = << >>]
            ELSE [inserted EXCEPT !.raised = TRUE]

\* the writer and its connection after a call
WriterBecomes(w) ==
    /\ division_states_buffer' = w.division_states_buffer
    /\ table_states_buffer' = w.table_states_buffer
    /\ total_division_inserts' = w.total_division_inserts
    /\ total_table_inserts' = w.total_table_inserts
    /\ total_commits' = w.total_commits
    /\ stored_division_states' = w.stored_division_states
    /\ stored_table_states' = w.stored_table_states
    /\ transaction' = w.transaction
    /\ last_commit' = w.last_commit
    /\ raised' = w.raised
    /\ failures' = IF w.raised THEN failures + 1 ELSE failures

\* add_division_state (lines 68-118); kinds are the outcomes the store has
AddDivisionState(kinds) ==
    /\ last_call # "idle"
    /\ Len(added_division) + Len(added_table) < MaxAdds
    /\ \E a \in DivisionArgs(Len(added_division) + Len(added_table)) :
          /\ added_division' = Append(added_division, a)
          /\ LET w == [Writer EXCEPT !.division_states_buffer =
                                         Append(@, DivisionRow(a))] IN
                IF BatchReached(w.division_states_buffer)
                THEN \E o \in StoreOutcomes(kinds, w.division_states_buffer) :
                        WriterBecomes(flush_division_states(w, o))
                ELSE WriterBecomes(w)
    /\ last_call' = "add_division_state"
    /\ UNCHANGED <<batch_size, added_table, notBVars>>

\* add_table_state (lines 120-170)
AddTableState(kinds) ==
    /\ last_call # "idle"
    /\ Len(added_division) + Len(added_table) < MaxAdds
    /\ \E a \in TableArgs(Len(added_division) + Len(added_table)) :
          /\ added_table' = Append(added_table, a)
          /\ LET w == [Writer EXCEPT !.table_states_buffer =
                                         Append(@, TableRow(a))] IN
                IF BatchReached(w.table_states_buffer)
                THEN \E o \in StoreOutcomes(kinds, w.table_states_buffer) :
                        WriterBecomes(flush_table_states(w, o))
                ELSE WriterBecomes(w)
    /\ last_call' = "add_table_state"
    /\ UNCHANGED <<batch_size, added_division, notBVars>>

\* flush_all (lines 218-225): both flushes, one after the other; an
\* exception of the first leaves flush_all before the second
FlushAll(kinds) ==
    /\ last_call \notin {"idle", "flush_all"}
    /\ \E o1 \in StoreOutcomes(kinds, division_states_buffer) :
          LET w == flush_division_states(Writer, o1) IN
             IF w.raised THEN WriterBecomes(w)
             ELSE \E o2 \in StoreOutcomes(kinds, table_states_buffer) :
                     WriterBecomes(flush_table_states(w, o2))
    /\ last_call' = "flush_all"
    /\ UNCHANGED <<batch_size, added_division, added_table, notBVars>>

\* ------------------------------------------------------------------------
\* sync_to_supabase.py: SupabaseSyncManager, run as one process per hour by
\* SurveillanceService.sync_database
\* ------------------------------------------------------------------------
\* hours of the clock: rows of table_states are a day old, two hours old or
\* one hour old when the first run starts, the other rows one hour old
CreatedTimes == {0, 23, 24}
HourlyWindow == 2          \* timedelta(hours=2), line 139
RetentionHours == 24       \* retention_hours=24, line 149
SyncStartHour == RetentionHours + 1

SyncTables == <<"videos", "sessions", "division_states", "table_states">>

EventTables == {"division_states", "table_states"}

\* the primary key column of a table (the event tables as
\* _mark_batch_synced names them, lines 384-387)
PkCol(table_name) ==
    CASE table_name = "division_states" -> "division_state_id"
      [] table_name = "table_states" -> "table_state_id"
      [] table_name = "videos" -> "video_id"
      [] OTHER -> "session_id"

\* a row of a local table: its key, a column of its content, created_at,
\* and synced_to_cloud for the event tables
LocalRow(table_name, id, created, synced) ==
    IF table_name \in EventTables
    THEN (PkCol(table_name) :> id) @@
         [frame_number |-> id, created_at |-> created,
          synced_to_cloud |-> synced]
    ELSE (PkCol(table_name) :> id) @@ [created_at |-> created]

\* the tables a run can find: ids count up with the time of insertion
LocalTables(table_name, n, times) ==
    UNION { { [i \in 1..k |-> LocalRow(table_name, i, c[i], f[i])] :
                c \in {c \in [1..k -> times] :
                          \A i, j \in 1..k : i < j => c[i] <= c[j]},
                f \in [1..k -> IF table_name \in EventTables
                               THEN {0, 1} ELSE {0}] } : k \in 0..n }

\* the columns the four SELECT statements name (lines 193-198, 229-234,
\* 264-270, 300-306), of the columns modelled
SelectedColumns(table_name) ==
    CASE table_name = "videos" -> {"video_id"}
      [] table_name = "sessions" -> {"session_id"}
      [] OTHER -> {"frame_number"}

NoStats ==
    [division_states_synced |-> 0, table_states_synced |-> 0,
     sessions_synced |-> 0, videos_synced |-> 0, errors |-> 0]

NoSyncStatus == [status |-> "none", error_message |-> "none"]

\* the variables of this part while another part is modelled
SIdle ==
    /\ sync_now = SyncStartHour
    /\ local_db = [t \in {SyncTables[i] : i \in 1..4} |-> << >>]
    /\ sync_pc = "off"
    /\ sync_mode = "hourly"
    /\ records = << >> /\ batch_start = -1 /\ total_uploaded = 0
    /\ stats = NoStats /\ sync_status = NoSyncStatus
    /\ sync_runs = 0 /\ batch_log = << >> /\ deleted_rows = {}
    /\ supabase_env = TRUE /\ sync_returncode = -1 /\ sync_report = "none"

\* the local database when the first run starts
SInit ==
    /\ sync_now = SyncStartHour
    /\ local_db \in
          [videos : LocalTables("videos", MaxOtherRows, {24}),
           sessions : LocalTables("sessions", MaxOtherRows, {24}),
           division_states :
               LocalTables("division_states", MaxOtherRows, {24}),
           table_states :
               LocalTables("table_states", MaxEventRows, CreatedTimes)]
    /\ sync_pc = "idle"
    /\ sync_mode = "hourly"
    /\ records = << >> /\ batch_start = -1 /\ total_uploaded = 0
    /\ stats = NoStats /\ sync_status = NoSyncStatus
    /\ sync_runs = 0 /\ batch_log = << >> /\ deleted_rows = {}
    /\ sync_returncode = -1 /\ sync_report = "none"

\* the process the replicator runs in (lines 563-599) and the caller
\* SurveillanceService.sync_database (surveillance_service.py lines 437-459)
sProcVars == <<supabase_env, sync_returncode, sync_report>>

\* sync_database: result.returncode == 0 logs "Database sync completed",
\* any other exit status logs "Database sync failed"
SyncDatabaseReport(code) == IF code = 0 THEN "completed" ELSE "failed"

\* the WHERE clause of the SELECT of sync_videos, sync_sessions,
\* sync_division_states and sync_table_states in a run of mode `mode` at
\* hour `hour`: synced_to_cloud = 0 for the event tables, AND created_at >=
\* cutoff_time in sync_hourly (cutoff_time = now - 2 h, line 139); sync_full
\* passes no cutoff (lines 169-172)
Selects(table_name, row, mode, hour) ==
    /\ table_name \in EventTables => row.synced_to_cloud = 0
    /\ mode = "hourly" => row.created_at >= hour - HourlyWindow

\* the result of the SELECT: the rows, with the columns it names
Select(table_name) ==
    LET Keep(row) == Selects(table_name, row, sync_mode, sync_now)
        Project(row) == [c \in SelectedColumns(table_name) |-> row[c]]
        kept == SelectSeq(local_db[table_name], Keep)
    IN [i \in 1..Len(kept) |-> Project(kept[i])]

\* the table after the one in hand, then cleanup (hourly) or the status row
AfterTable(table_name) ==
    CASE table_name = "videos" -> "sessions"
      [] table_name = "sessions" -> "division_states"
      [] table_name = "division_states" -> "table_states"
      [] OTHER -> IF sync_mode = "hourly" THEN "cleanup" ELSE "log"

\* an UPDATE that looks the rows up by a column the SELECT does name
MarkByFrameNumber(table_name, batch) ==
    [raised |-> FALSE,
     rows |-> [i \in 1..Len(local_db[table_name]) |->
                  IF \E k \in 1..Len(batch) :
                        batch[k].frame_number
                           = local_db[table_name][i].frame_number
                  THEN [local_db[table_name][i] EXCEPT !.synced_to_cloud = 1]
                  ELSE local_db[table_name][i]]]

\* _mark_batch_synced (lines 379-402): record[pk_col] for every record of the
\* batch, an IndexError when the record has no such column; then UPDATE ...
\* SET synced_to_cloud = 1 WHERE pk_col IN (ids) and commit
_mark_batch_synced(table_name, batch) ==
    IF \E k \in 1..Len(batch) : PkCol(table_name) \notin DOMAIN batch[k]
    THEN [raised |-> TRUE, rows |-> local_db[table_name]]
    ELSE [raised |-> FALSE,
          rows |-> [i \in 1..Len(local_db[table_name]) |->
                       IF \E k \in 1..Len(batch) :
                             batch[k][PkCol(table_name)]
                                = local_db[table_name][i][PkCol(table_name)]
                       THEN [local_db[table_name][i]
                                EXCEPT !.synced_to_cloud = 1]
                       ELSE local_db[table_name][i]]]

\* a loop body that marks the batch whatever the cloud answered
UploadedMarkAlways(table_name, batch, outcome) ==
    [rows |-> IF table_name \in EventTables
              THEN MarkByFrameNumber(table_name, batch).rows
              ELSE local_db[table_name],
     uploaded |-> IF outcome = "accepted" THEN Len(batch) ELSE 0,
     errors |-> IF outcome = "accepted" THEN 0 ELSE 1]

\* the body of the loop of _upload_in_batches (lines 355-375) for one
\* batch: insert(...).execute() returns or raises; when it returned,
\* _mark_batch_synced for the event tables, then total_uploaded += len(batch);
\* any exception of the try block counts one error
Uploaded(table_name, batch, outcome) ==
    LET marked == IF table_name \in EventTables
                  THEN _mark_batch_synced(table_name, batch)
                  ELSE [raised |-> FALSE, rows |-> local_db[table_name]]
    IN IF outcome = "accepted" /\ ~marked.raised
       THEN [rows |-> marked.rows, uploaded |-> Len(batch), errors |-> 0]
       ELSE [rows |-> local_db[table_name], uploaded |-> 0, errors |-> 1]

SyncedCounter(table_name) ==
    CASE table_name = "videos" -> "videos_synced"
      [] table_name = "sessions" -> "sessions_synced"
      [] table_name = "division_states" -> "division_states_synced"
      [] OTHER -> "table_states_synced"

\* main (lines 563-599): a new SupabaseSyncManager, connect, then sync_hourly
\* or sync_full up to the first SELECT; the next run is DB_SYNC_INTERVAL
\* (one hour) after the last
SyncStart(mode) ==
    /\ sync_pc \in {"idle", "done"}
    /\ sync_runs < MaxSyncRuns
    /\ sync_runs' = sync_runs + 1
    /\ sync_now' = IF sync_pc = "done" THEN sync_now + 1 ELSE sync_now
    /\ sync_mode' = mode
    /\ IF supabase_env
       THEN /\ sync_pc' = "videos"
            /\ sync_returncode' = -1
            /\ sync_report' = "none"
       ELSE \* connect raises ValueError (lines 110-114); main prints
            \* "Sync failed", closes and calls sys.exit(1) (lines 591-599)
            /\ sync_pc' = "done"
            /\ sync_returncode' = 1
            /\ sync_report' = SyncDatabaseReport(1)
    /\ stats' = NoStats /\ sync_status' = NoSyncStatus
    /\ batch_log' = << >>
    /\ records' = << >> /\ batch_start' = -1 /\ total_uploaded' = 0
    /\ UNCHANGED <<local_db, deleted_rows, supabase_env, notSVars>>

\* the SELECT of the table in hand; no rows: return before the upload
SyncSelect ==
    /\ sync_pc \in {SyncTables[i] : i \in 1..4}
    /\ batch_start = -1
    /\ LET found == Select(sync_pc) IN
          IF found = << >>
          THEN /\ sync_pc' = AfterTable(sync_pc)
               /\ UNCHANGED <<records, batch_start>>
          ELSE /\ records' = found
               /\ batch_start' = 0
               /\ UNCHANGED sync_pc
    /\ total_uploaded' = 0
    /\ UNCHANGED <<sync_now, local_db, sync_mode, stats, sync_status,
                   sync_runs, batch_log, deleted_rows, notSVars>>
    /\ UNCHANGED sProcVars

\* one pass of the loop of _upload_in_batches; after the last batch the
\* caller stores total_uploaded in its counter (lines 220, 255, 291, 327)
UploadBatch(outcome) ==
    /\ sync_pc \in {SyncTables[i] : i \in 1..4}
    /\ batch_start >= 0
    /\ LET last == IF batch_start + BATCH_SIZE < Len(records)
                   THEN batch_start + BATCH_SIZE ELSE Len(records)
           batch == SubSeq(records, batch_start + 1, last)
           u == Uploaded(sync_pc, batch, outcome)
       IN /\ local_db' = [local_db EXCEPT ![sync_pc] = u.rows]
          /\ total_uploaded' = total_uploaded + u.uploaded
          /\ batch_log' = Append(batch_log,
                                 [table |-> sync_pc, batch |-> batch,
                                  outcome |-> outcome])
          /\ IF last < Len(records)
             THEN /\ batch_start' = last
                  /\ stats' = [stats EXCEPT !.errors = @ + u.errors]
                  /\ UNCHANGED <<sync_pc, records>>
             ELSE /\ batch_start' = -1
                  /\ records' = << >>
                  /\ sync_pc' = AfterTable(sync_pc)
                  /\ stats' = [stats EXCEPT
                                  !.errors = @ + u.errors,
                                  ![SyncedCounter(sync_pc)] =
                                      total_uploaded + u.uploaded]
    /\ UNCHANGED <<sync_now, sync_mode, sync_status, sync_runs, deleted_rows,
                   notSVars>>
    /\ UNCHANGED sProcVars

\* a DELETE that forgets the synced_to_cloud test
DeletableOld(row, cutoff) == row.created_at < cutoff

\* the WHERE clause of the two DELETE statements (lines 486-490, 494-498)
Deletable(row, cutoff) ==
    row.synced_to_cloud = 1 /\ row.created_at < cutoff

\* cleanup_synced_data(retention_hours=24) (lines 469-504)
CleanupSyncedData ==
    /\ sync_pc = "cleanup"
    /\ LET cutoff == sync_now - RetentionHours
           Keep(row) == ~Deletable(row, cutoff)
       IN /\ local_db' =
                [local_db EXCEPT
                    !.division_states = SelectSeq(@, Keep),
                    !.table_states = SelectSeq(@, Keep)]
          /\ deleted_rows' = deleted_rows \cup
                UNION { { [table |-> t, row |-> local_db[t][i],
                           at |-> sync_now] :
                             i \in {i \in 1..Len(local_db[t]) :
                                       Deletable(local_db[t][i], cutoff)} } :
                        t \in EventTables }
    /\ sync_pc' = "log"
    /\ UNCHANGED <<sync_now, sync_mode, records, batch_start, total_uploaded,
                   stats, sync_status, sync_runs, batch_log, notSVars>>
    /\ UNCHANGED sProcVars

\* log_sync_status (lines 506-536), then print_summary and close
LogSyncStatus ==
    /\ sync_pc = "log"
    /\ sync_status' =
          [status |-> IF stats.errors = 0 THEN "success" ELSE "partial",
           error_message |-> IF stats.errors > 0 THEN "batch errors"
                                                 ELSE "none"]
    /\ sync_pc' = "done"
    /\ sync_returncode' = 0
    /\ sync_report' = SyncDatabaseReport(0)
    /\ UNCHANGED <<sync_now, local_db, sync_mode, records, batch_start,
                   total_uploaded, stats, sync_runs, batch_log, deleted_rows,
                   supabase_env, notSVars>>

\* ------------------------------------------------------------------------
\* check_disk_space.py: smart_cleanup
\* ------------------------------------------------------------------------
\* Dates are day numbers; smart_cleanup starts on day CleanupDay. Folders
\* are dated from a day past the retention period to the day after
\* CleanupDay, and every folder holds 1 GB.
RAW_VIDEO_RETENTION_DAYS == 2
PROCESSED_VIDEO_RETENTION_DAYS == 2
CleanupDay == RAW_VIDEO_RETENTION_DAYS + 1
FolderDates == 0..(CleanupDay + 1)
CleanupCameras == {"camera_22", "camera_35"}

\* the variables of this part while another part is modelled
KIdle ==
    /\ k_today = CleanupDay
    /\ raw_folders = {} /\ result_folders = {}
    /\ free_gb = 0 /\ target_free_gb = 0 /\ dry_run = FALSE
    /\ total_freed_gb = 0 /\ date_queue = << >>
    /\ k_pc = "off" /\ midnights = 0 /\ k_deleted = {}

\* smart_cleanup(target_free_gb, dry_run) is called (lines 385-409)
KInit ==
    /\ k_today = CleanupDay
    /\ raw_folders \in
          SubsetsUpTo([date : FolderDates, camera : CleanupCameras],
                      MaxRawDirs)
    /\ result_folders \in SubsetsUpTo(FolderDates, MaxResultDirs)
    /\ free_gb = 0
    /\ target_free_gb \in 1..MaxTarget
    /\ dry_run \in BOOLEAN
    /\ total_freed_gb = 0 /\ date_queue = << >>
    /\ k_pc = "start" /\ midnights = 0 /\ k_deleted = {}

\* get_date_age_days (lines 133-149): 0 = today, 1 = yesterday
get_date_age_days(date, day) == day - date

\* get_date_folders (lines 85-101): the date folders, oldest first
RECURSIVE SortedDates(_)
SortedDates(S) ==
    IF S = {} THEN << >>
    ELSE LET d == CHOOSE x \in S : \A y \in S : x <= y
         IN <<d>> \o SortedDates(S \ {d})

get_date_folders(dates) == SortedDates(dates)

\* a test that takes yesterday's folders too
RawDeletableDayOld(age_days) == age_days >= 1

\* line 445: if age_days >= RAW_VIDEO_RETENTION_DAYS
RawDeletable(age_days) == age_days >= RAW_VIDEO_RETENTION_DAYS

\* lines 436-463: the camera folders of one date folder, in the order
\* iterdir gives them; a folder old enough is deleted and counted, and the
\* function returns when the target is reached
RECURSIVE CameraLoop(_, _, _, _)
CameraLoop(order, age_days, freed, gone) ==
    IF order = << >> \/ ~RawDeletable(age_days)
    THEN [freed |-> freed, gone |-> gone, returned |-> FALSE]
    ELSE IF free_gb + freed + 1 >= target_free_gb
         THEN [freed |-> freed + 1, gone |-> gone \cup {Head(order)},
               returned |-> TRUE]
         ELSE CameraLoop(Tail(order), age_days, freed + 1,
                         gone \cup {Head(order)})

\* Phase 1 (lines 411-421): cleanup_screenshots frees 0 or 1 GB; return when
\* that reaches the target, else list the date folders of videos/ (line 427)
CleanupScreenshots ==
    /\ k_pc = "start"
    /\ \E screenshot_freed \in {0, 1} :
          /\ total_freed_gb' = screenshot_freed
          /\ IF free_gb + screenshot_freed >= target_free_gb
             THEN k_pc' = "returned" /\ UNCHANGED date_queue
             ELSE /\ k_pc' = "raw"
                  /\ date_queue' =
                        get_date_folders({f.date : f \in raw_folders})
    /\ UNCHANGED <<k_today, raw_folders, result_folders, free_gb,
                   target_free_gb, dry_run, midnights, k_deleted, notKVars>>

\* Phase 2, one date folder (lines 428-463): today's folder is skipped, the
\* camera folders of the others go through the camera loop
RawDateFolder ==
    /\ k_pc = "raw" /\ date_queue # << >>
    /\ LET date == Head(date_queue)
           age_days == get_date_age_days(date, k_today)
           cameras == {f.camera : f \in {g \in raw_folders : g.date = date}}
       IN IF age_days = 0
          THEN /\ date_queue' = Tail(date_queue)
               /\ UNCHANGED <<raw_folders, total_freed_gb, k_pc, k_deleted>>
          ELSE \E order \in Perms(cameras) :
                  LET r == CameraLoop(order, age_days, total_freed_gb, {}) IN
                     /\ total_freed_gb' = r.freed
                     /\ raw_folders' =
                           IF dry_run THEN raw_folders
                           ELSE {f \in raw_folders :
                                    ~(f.date = date /\ f.camera \in r.gone)}
                     /\ k_deleted' =
                           IF dry_run THEN k_deleted
                           ELSE k_deleted \cup
                                   {[date |-> date, camera |-> c,
                                     today |-> k_today] : c \in r.gone}
                     /\ IF r.returned
                        THEN k_pc' = "returned" /\ UNCHANGED date_queue
                        ELSE date_queue' = Tail(date_queue) /\ UNCHANGED k_pc
    /\ UNCHANGED <<k_today, result_folders, free_gb, target_free_gb, dry_run,
                   midnights, notKVars>>

\* end of phase 2: list the date folders of results/ (line 472)
RawDone ==
    /\ k_pc = "raw" /\ date_queue = << >>
    /\ k_pc' = "results"
    /\ date_queue' = get_date_folders(result_folders)
    /\ UNCHANGED <<k_today, raw_folders, result_folders, free_gb,
                   target_free_gb, dry_run, total_freed_gb, midnights,
                   k_deleted, notKVars>>

\* Phase 3, one date folder of results/ (lines 473-494)
ResultDateFolder ==
    /\ k_pc = "results" /\ date_queue # << >>
    /\ LET date == Head(date_queue)
           age_days == get_date_age_days(date, k_today)
       IN IF age_days > PROCESSED_VIDEO_RETENTION_DAYS
          THEN /\ total_freed_gb' = total_freed_gb + 1
               /\ result_folders' = IF dry_run THEN result_folders
                                    ELSE result_folders \ {date}
               /\ IF free_gb + total_freed_gb + 1 >= target_free_gb
                  THEN k_pc' = "returned" /\ UNCHANGED date_queue
                  ELSE date_queue' = Tail(date_queue) /\ UNCHANGED k_pc
          ELSE /\ date_queue' = Tail(date_queue)
               /\ UNCHANGED <<result_folders, total_freed_gb, k_pc>>
    /\ UNCHANGED <<k_today, raw_folders, free_gb, target_free_gb, dry_run,
                   midnights, k_deleted, notKVars>>

\* the summary and return total_freed_gb (lines 496-508)
ResultsDone ==
    /\ k_pc = "results" /\ date_queue = << >>
    /\ k_pc' = "returned"
    /\ UNCHANGED <<k_today, raw_folders, result_folders, free_gb,
                   target_free_gb, dry_run, total_freed_gb, date_queue,
                   midnights, k_deleted, notKVars>>

\* midnight passes while the cleanup runs
Midnight ==
    /\ k_pc \in {"raw", "results"}
    /\ midnights < MaxMidnights
    /\ midnights' = midnights + 1
    /\ k_today' = k_today + 1
    /\ UNCHANGED <<raw_folders, result_folders, free_gb, target_free_gb,
                   dry_run, total_freed_gb, date_queue, k_pc, k_deleted,
                   notKVars>>

\* ------------------------------------------------------------------------
\* capture_rtsp_streams.py: DirectFFmpegCapture.capture_video
\* ------------------------------------------------------------------------
\* Times are whole seconds of the wall clock, counted from session_start_time.
RetryPause == 5

\* the variables of this part while another part is modelled
CIdle ==
    /\ duration_seconds = 0 /\ segment_duration = 0 /\ session_clock = 0
    /\ current_segment = 0 /\ is_capturing = FALSE
    /\ ffmpeg_process = "none" /\ c_pc = "off" /\ ffmpeg_cmds = << >>

\* __init__ (lines 385-402) and the call capture_video(duration_seconds, ..)
CInit ==
    /\ duration_seconds \in 1..MaxDuration
    /\ segment_duration \in 1..MaxSegment
    /\ session_clock = 0
    /\ current_segment = 0
    /\ is_capturing = FALSE
    /\ ffmpeg_process = "none"
    /\ c_pc = "network_check"
    /\ ffmpeg_cmds = << >>

\* line 750: min(self.segment_duration, remaining_duration)
CurrentSegmentDuration(remaining_duration) ==
    IF segment_duration <= remaining_duration
    THEN segment_duration ELSE remaining_duration

\* line 472 in _start_ffmpeg_segment(output_path, segment_number): the value
\* that follows '-t' in ffmpeg_cmd
FfmpegT == segment_duration

\* lines 714-726: the network check, then the session starts
NetworkCheck(is_healthy) ==
    /\ c_pc = "network_check"
    /\ IF is_healthy
       THEN /\ current_segment' = 1
            /\ is_capturing' = TRUE
            /\ c_pc' = "loop"
       ELSE /\ c_pc' = "returned"
            /\ UNCHANGED <<current_segment, is_capturing>>
    /\ UNCHANGED <<duration_seconds, segment_duration, session_clock,
                   ffmpeg_process, ffmpeg_cmds>>
    /\ UNCHANGED notCVars

\* lines 733-767: one pass of the while loop up to the start of ffmpeg; the
\* finally clause (lines 808-819) when the loop ends
LoopIteration(popen_ok) ==
    /\ c_pc = "loop"
    /\ IF ~is_capturing \/ session_clock >= duration_seconds \/ ~popen_ok
       THEN /\ c_pc' = "returned"
            /\ is_capturing' = FALSE
            /\ ffmpeg_process' = IF ~is_capturing \/ session_clock >= duration_seconds
                                 THEN ffmpeg_process ELSE "none"
            /\ UNCHANGED ffmpeg_cmds
       ELSE /\ ffmpeg_cmds' = Append(ffmpeg_cmds,
                  [t |-> FfmpegT,
                   elapsed_total |-> session_clock,
                   current_segment_duration |->
                       CurrentSegmentDuration(duration_seconds - session_clock)])
            /\ ffmpeg_process' = "running"
            /\ c_pc' = "waiting"
            /\ UNCHANGED is_capturing
    /\ UNCHANGED <<duration_seconds, segment_duration, session_clock,
                   current_segment>>
    /\ UNCHANGED notCVars

\* lines 775-800, with _wait_for_segment (lines 521-571): ffmpeg ends after
\* ran seconds, at most the seconds its -t asked for; after a failure the
\* loop pauses before the next segment
SegmentEnded(success, ran) ==
    /\ c_pc = "waiting"
    /\ ran \in 1..ffmpeg_cmds[Len(ffmpeg_cmds)].t
    /\ session_clock' = session_clock + ran + (IF success THEN 0 ELSE RetryPause)
    /\ current_segment' = current_segment + 1
    /\ ffmpeg_process' = "ended"
    /\ c_pc' = "loop"
    /\ UNCHANGED <<duration_seconds, segment_duration, is_capturing,
                   ffmpeg_cmds>>
    /\ UNCHANGED notCVars

\* stop_capture (line 872) and signal_handler (line 907): the flag the while
\* loop tests
StopCapture ==
    /\ c_pc \in {"loop", "waiting"}
    /\ is_capturing
    /\ is_capturing' = FALSE
    /\ UNCHANGED <<duration_seconds, segment_duration, session_clock,
                   current_segment, ffmpeg_process, c_pc, ffmpeg_cmds>>
    /\ UNCHANGED notCVars

\* ------------------------------------------------------------------------
\* migrate_database.py: DatabaseMigrator
\* ------------------------------------------------------------------------
\* The store is what the migration looks at: which tables exist, which of
\* the columns location_id and synced_to_cloud sessions, division_states and
\* table_states have, whether a table holds a row without a location_id, and
\* the number of rows of locations.
LocationTables == {"sessions", "division_states", "table_states"}
SyncedTables == {"division_states", "table_states"}
RequiredTables == {"locations", "cameras", "sessions", "division_states",
                   "table_states", "sync_queue", "sync_status"}

\* a store of the prior version: the three tables as init_database of the
\* analysis runner creates them, with or without rows, and possibly a
\* locations table with its one row
PriorStores ==
    {[tables |-> LocationTables \cup extra,
      columns |-> [t \in LocationTables |-> {}],
      no_location |-> rows,
      locations |-> IF "locations" \in extra THEN 1 ELSE 0] :
        extra \in {{}, {"locations", "cameras"}},
        rows \in [LocationTables -> BOOLEAN]}

\* the variables of this part while another part is modelled
MIdle ==
    /\ store = [tables |-> {}, columns |-> [t \in LocationTables |-> {}],
                no_location |-> [t \in LocationTables |-> FALSE],
                locations |-> 0]
    /\ store_at_start = store
    /\ schema_file = FALSE /\ backup = FALSE /\ backup_written = FALSE
    /\ migrations = 0 /\ m_pc = "off"

\* main (lines 312-349) on a store of the prior version
MInit ==
    /\ store \in PriorStores
    /\ store_at_start = store
    /\ schema_file \in BOOLEAN
    /\ backup \in BOOLEAN
    /\ backup_written = FALSE
    /\ migrations = 0
    /\ m_pc = "idle"

\* _add_location_id_columns (lines 187-212): ALTER TABLE ... ADD COLUMN
\* location_id for the tables that exist and lack it
_add_location_id_columns(st) ==
    [st EXCEPT !.columns =
        [t \in LocationTables |->
            IF t \in st.tables THEN st.columns[t] \cup {"location_id"}
            ELSE st.columns[t]]]

\* _create_basic_schema (lines 146-185): CREATE TABLE IF NOT EXISTS for
\* locations and cameras, then _add_location_id_columns and commit
_create_basic_schema(st) ==
    _add_location_id_columns(
        [st EXCEPT !.tables = st.tables \cup {"locations", "cameras"}])

\* conn.executescript(schema_sql) (lines 136-141) for a schema file of
\* CREATE ... IF NOT EXISTS statements, as line 140 takes it to be: the
\* missing tables are created with every column, the tables that exist are
\* left as they are
ExecuteSchemaScript(st) ==
    [st EXCEPT !.tables = st.tables \cup RequiredTables,
               !.columns = [t \in LocationTables |->
                               IF t \in st.tables THEN st.columns[t]
                               ELSE {"location_id", "synced_to_cloud"}]]

\* apply_new_schema (lines 126-144)
apply_new_schema(st) ==
    IF ~schema_file THEN _create_basic_schema(st) ELSE ExecuteSchemaScript(st)

\* backfill_data (lines 214-250) raises sqlite3.OperationalError: the
\* SELECT on a missing locations table, or an UPDATE of a table that is
\* missing or has no location_id column
BackfillRaises(st) ==
    \/ "locations" \notin st.tables
    \/ /\ st.locations > 0
       /\ \E t \in LocationTables :
             t \notin st.tables \/ "location_id" \notin st.columns[t]

\* backfill_data when it does not raise: nothing without a location row,
\* else every NULL location_id is set and the updates are committed
backfill_data(st) ==
    IF st.locations = 0 THEN st
    ELSE [st EXCEPT !.no_location = [t \in LocationTables |-> FALSE]]

\* verify_migration (lines 252-298): False when a required table or a
\* location_id column is missing
VerifyFails(st) ==
    \/ ~(RequiredTables \subseteq st.tables)
    \/ \E t \in LocationTables : "location_id" \notin st.columns[t]

\* verify_migration past its two checks: ALTER TABLE ... ADD COLUMN
\* synced_to_cloud INTEGER DEFAULT 0 for the event tables that lack it
verify_migration(st) ==
    IF VerifyFails(st) THEN st
    ELSE [st EXCEPT !.columns =
            [t \in LocationTables |->
                IF t \in SyncedTables
                THEN st.columns[t] \cup {"synced_to_cloud"}
                ELSE st.columns[t]]]

\* run() steps 1 to 3 (lines 53-60): create_backup when asked for (the
\* database file exists), connect, analyze_current_schema
CreateBackup ==
    /\ m_pc \in {"idle", "done", "failed"}
    /\ migrations < MaxMigrations
    /\ migrations' = migrations + 1
    /\ store_at_start' = store
    /\ backup_written' = backup
    /\ m_pc' = "schema"
    /\ UNCHANGED <<store, schema_file, backup>>
    /\ UNCHANGED notMVars

\* run() step 4 (line 63)
ApplyNewSchema ==
    /\ m_pc = "schema"
    /\ store' = apply_new_schema(store)
    /\ m_pc' = "backfill"
    /\ UNCHANGED <<store_at_start, schema_file, backup, backup_written,
                   migrations>>
    /\ UNCHANGED notMVars

\* run() step 5 (line 66); an exception reaches main, which prints
\* "Migration failed", closes the connection and exits with status 1
BackfillData ==
    /\ m_pc = "backfill"
    /\ IF BackfillRaises(store)
       THEN m_pc' = "failed" /\ UNCHANGED store
       ELSE m_pc' = "verify" /\ store' = backfill_data(store)
    /\ UNCHANGED <<store_at_start, schema_file, backup, backup_written,
                   migrations>>
    /\ UNCHANGED notMVars

\* run() step 6 (lines 69-72): the value verify_migration returns is not
\* looked at, "Migration completed successfully" is printed
VerifyMigration ==
    /\ m_pc = "verify"
    /\ store' = verify_migration(store)
    /\ m_pc' = "done"
    /\ UNCHANGED <<store_at_start, schema_file, backup, backup_written,
                   migrations>>
    /\ UNCHANGED notMVars

\* ------------------------------------------------------------------------
\* The output of the long-running child processes: ffmpeg (spawned by the
\* recorder), the recorder and the orchestrator (spawned by the service)
\* ------------------------------------------------------------------------
Children == {"ffmpeg", "capture", "processing"}

\* the stdout= and stderr= arguments of the Popen call that spawns a child:
\* capture_rtsp_streams.py lines 494-498, surveillance_service.py lines
\* 342-347 and 376-381
PopenOutput(child) ==
    IF child = "ffmpeg" THEN "DEVNULL" ELSE "PIPE"

\* The parent reads the pipe of a child: SurveillanceService never calls
\* communicate() nor reads capture_process.stdout / .stderr or
\* processing_process.stdout / .stderr
ParentReads(child) == FALSE

NoChild == [st |-> "unborn", output |-> "none", buffered |-> 0]

\* the variables of this part while another part is modelled
PIdle == children = [c \in Children |-> NoChild]

PInit == children = [c \in Children |-> NoChild]

\* subprocess.Popen(...) of the child
Spawn(child) ==
    /\ children[child].st \in {"unborn", "exited"}
    /\ children' = [children EXCEPT ![child] =
                       [st |-> "running", output |-> PopenOutput(child),
                        buffered |-> 0]]
    /\ UNCHANGED notPVars

\* The child writes a log line to stdout or stderr (the recorder and the
\* orchestrator log to a console handler on sys.stdout, ffmpeg reports on
\* stderr): discarded by the null device, kept in the pipe buffer, and the
\* write blocks when the buffer is full
ChildWrites(child) ==
    /\ children[child].st = "running"
    /\ children' = [children EXCEPT ![child] =
          IF @.output = "DEVNULL" THEN @
          ELSE IF @.buffered < PipeCapacity
          THEN [@ EXCEPT !.buffered = @ + 1]
          ELSE [@ EXCEPT !.st = "blocked"]]
    /\ UNCHANGED notPVars

\* the child ends: its work is done, or it was terminated or killed
ChildExit(child) ==
    /\ children[child].st \in {"running", "blocked"}
    /\ children' = [children EXCEPT ![child].st = "exited"]
    /\ UNCHANGED notPVars

\* ------------------------------------------------------------------------
\* Orchestrator runs, one after the other, over segments that stay on disk:
\* discover_videos, then one analysis runner for each segment emitted
\* ------------------------------------------------------------------------
\* finalized segments of well-formed names in videos/<yesterday>/<camera>/
Finalized == 1..MaxFinalized

\* get_processed_videos (lines 401-437): SELECT DISTINCT video_file FROM
\* sessions WHERE video_file IS NOT NULL, whatever end_time is
ProcessedSegments(rows) == {g \in Finalized : rows[g] # "none"}

\* discover_videos lines 547-556: a file whose name is in processed_videos
\* is skipped, the others are added to the list
DiscoveredSegments(rows) == Finalized \ ProcessedSegments(rows)

\* table_and_region_state_detection.py lines 1577-1598: a row of sessions
\* with this camera_id and video_file makes the runner exit with code 2
RunnerFindsRow(rows, g) == rows[g] # "none"

\* the variables of this part while another part is modelled
OIdle ==
    /\ o_sessions = [g \in Finalized |-> "none"]
    /\ o_emitted = {}
    /\ o_runner = [g \in Finalized |-> "none"]
    /\ o_failures = 0
    /\ o_pc = "idle"

\* an empty sessions table, no orchestrator running
OInit ==
    /\ o_sessions = [g \in Finalized |-> "none"]
    /\ o_emitted = {}
    /\ o_runner = [g \in Finalized |-> "none"]
    /\ o_failures = 0
    /\ o_pc = "idle"

\* an orchestrator run begins: discover_videos (lines 481-571)
OrchestratorDiscover ==
    /\ o_pc = "idle"
    /\ o_emitted' = DiscoveredSegments(o_sessions)
    /\ o_pc' = "processing"
    /\ UNCHANGED <<o_sessions, o_runner, o_failures, notOVars>>

\* process_job (lines 673-739) starts the runner of an emitted segment; the
\* runner makes its own duplicate check (lines 1577-1598)
SegmentRunnerStart(g) ==
    /\ o_pc = "processing"
    /\ g \in o_emitted
    /\ o_runner[g] = "none"
    /\ IF RunnerFindsRow(o_sessions, g)
       THEN /\ o_emitted' = o_emitted \ {g}
            /\ UNCHANGED o_runner
       ELSE /\ o_runner' = [o_runner EXCEPT ![g] = "checked"]
            /\ UNCHANGED o_emitted
    /\ UNCHANGED <<o_sessions, o_failures, o_pc, notOVars>>

\* lines 1629-1640: INSERT INTO sessions (no end_time) and commit
SegmentRunnerInsert(g) ==
    /\ o_runner[g] = "checked"
    /\ o_sessions' = [o_sessions EXCEPT ![g] = "open"]
    /\ o_runner' = [o_runner EXCEPT ![g] = "inserted"]
    /\ UNCHANGED <<o_emitted, o_failures, o_pc, notOVars>>

\* lines 1824-1831: UPDATE sessions SET end_time, commit; the runner ends
SegmentRunnerFinish(g) ==
    /\ o_runner[g] = "inserted"
    /\ o_sessions' = [o_sessions EXCEPT ![g] = "closed"]
    /\ o_runner' = [o_runner EXCEPT ![g] = "none"]
    /\ o_emitted' = o_emitted \ {g}
    /\ UNCHANGED <<o_failures, o_pc, notOVars>>

\* the runner is killed or crashes: what it committed stays, process_job
\* counts a failed job (lines 726-733)
SegmentRunnerKilled(g) ==
    /\ o_runner[g] \in {"checked", "inserted"}
    /\ o_failures < MaxRunnerFailures
    /\ o_failures' = o_failures + 1
    /\ o_runner' = [o_runner EXCEPT ![g] = "none"]
    /\ o_emitted' = o_emitted \ {g}
    /\ UNCHANGED <<o_sessions, o_pc, notOVars>>

\* wait_completion returns (job_queue.join), the orchestrator run is over
OrchestratorDone ==
    /\ o_pc = "processing"
    /\ o_emitted = {}
    /\ o_pc' = "idle"
    /\ UNCHANGED <<o_sessions, o_emitted, o_runner, o_failures, notOVars>>

\* ------------------------------------------------------------------------
\* surveillance_service.py: main, the restart command (lines 727-738), and
\* the instance it signals
\* ------------------------------------------------------------------------
RestartSleep == 2          \* time.sleep(2), line 734

\* os.kill(old_pid, 0) of start (line 568) succeeds: the process exists
PidAlive(inst) == inst \in {"running", "stop_handler", "stop_finally"}

\* the variables of this part while another part is modelled
XIdle ==
    /\ old_instance = "none"
    /\ old_stop_step = "none"
    /\ old_children = {}
    /\ old_stop_elapsed = 0
    /\ restart_pid_file = "none"
    /\ restart_pc = "idle"
    /\ restart_slept = 0

\* `surveillance_service.py restart` is issued: an instance serves and its
\* PID file names it, or no instance runs and there is no PID file or a
\* stale one
XInit ==
    /\ old_instance \in {"running", "none"}
    /\ old_stop_step = "none"
    /\ old_children \in
          IF old_instance = "running" THEN SUBSET {"capture", "processing"}
          ELSE {{}}
    /\ old_stop_elapsed = 0
    /\ restart_pid_file \in
          IF old_instance = "running" THEN {"old"} ELSE {"none", "old"}
    /\ restart_pc = "kill"
    /\ restart_slept = 0

\* lines 729-736: PID_FILE.exists(), os.kill(pid, SIGTERM), and OSError is
\* passed over; the signal makes the old instance run signal_handler
RestartKill ==
    /\ restart_pc = "kill"
    /\ IF restart_pid_file # "none" /\ PidAlive(old_instance)
       THEN /\ restart_pc' = "sleep"
            /\ old_instance' = "stop_handler"
            /\ old_stop_step' = "capture"
       ELSE /\ restart_pc' = "start"
            /\ UNCHANGED <<old_instance, old_stop_step>>
    /\ UNCHANGED <<old_children, old_stop_elapsed, restart_pid_file,
                   restart_slept, notXVars>>

\* line 734: time.sleep(2) is over
RestartWake ==
    /\ restart_pc = "sleep"
    /\ restart_slept = RestartSleep
    /\ restart_pc' = "start"
    /\ UNCHANGED <<old_instance, old_stop_step, old_children,
                   old_stop_elapsed, restart_pid_file, restart_slept,
                   notXVars>>

\* line 738, start lines 562-577: a PID file of a live process makes start
\* return False; a stale file is unlinked; then the PID file is written
RestartStart ==
    /\ restart_pc = "start"
    /\ IF restart_pid_file # "none" /\ PidAlive(old_instance)
       THEN /\ restart_pc' = "refused"
            /\ UNCHANGED restart_pid_file
       ELSE /\ restart_pc' = "serving"
            /\ restart_pid_file' = "new"
    /\ UNCHANGED <<old_instance, old_stop_step, old_children,
                   old_stop_elapsed, restart_slept, notXVars>>

\* stop lines 650-652: if PID_FILE.exists(): PID_FILE.unlink()
PidFileAfterStop(file) == "none"

Stopping == old_instance \in {"stop_handler", "stop_finally"}

\* stop lines 626-629: the recorder, when alive, is stopped by
\* _stop_capture_process(timeout=30), which kills it in the end
OldStopCapture ==
    /\ Stopping /\ old_stop_step = "capture"
    /\ old_children' = old_children \ {"capture"}
    /\ old_stop_step' = "processing"
    /\ UNCHANGED <<old_instance, old_stop_elapsed, restart_pid_file,
                   restart_pc, restart_slept, notXVars>>

\* stop lines 632-643: terminate, wait(timeout=10), kill, wait(timeout=5)
OldStopProcessing ==
    /\ Stopping /\ old_stop_step = "processing"
    /\ old_children' = old_children \ {"processing"}
    /\ old_stop_step' = "join"
    /\ UNCHANGED <<old_instance, old_stop_elapsed, restart_pid_file,
                   restart_pc, restart_slept, notXVars>>

\* stop lines 646-648: thread.join(timeout=5) for each thread
OldStopJoin ==
    /\ Stopping /\ old_stop_step = "join"
    /\ old_stop_step' = "unlink"
    /\ UNCHANGED <<old_instance, old_children, old_stop_elapsed,
                   restart_pid_file, restart_pc, restart_slept, notXVars>>

\* signal_handler (lines 169-173): stop() comes to its end, then sys.exit(0)
\* raises SystemExit inside scheduler_loop and the finally of start (line
\* 616) calls stop() again
OldStopHandler ==
    /\ old_instance = "stop_handler" /\ old_stop_step = "unlink"
    /\ restart_pid_file' = PidFileAfterStop(restart_pid_file)
    /\ old_instance' = "stop_finally"
    /\ old_stop_step' = "capture"
    /\ old_stop_elapsed' = 0
    /\ UNCHANGED <<old_children, restart_pc, restart_slept, notXVars>>

\* the stop() of the finally clause comes to its end; the process exits
OldStopFinally ==
    /\ old_instance = "stop_finally" /\ old_stop_step = "unlink"
    /\ restart_pid_file' = PidFileAfterStop(restart_pid_file)
    /\ old_instance' = "exited"
    /\ old_stop_step' = "none"
    /\ old_stop_elapsed' = 0
    /\ UNCHANGED <<old_children, restart_pc, restart_slept, notXVars>>

\* a second passes for the sleeping controller and the stopping instance
RestartTick ==
    /\ restart_pc = "sleep" \/ Stopping
    /\ restart_pc = "sleep" => restart_slept < RestartSleep
    /\ Stopping => old_stop_elapsed < MaxStopSeconds
    /\ restart_slept' = IF restart_pc = "sleep" THEN restart_slept + 1
                        ELSE restart_slept
    /\ old_stop_elapsed' =
          IF Stopping THEN old_stop_elapsed + 1 ELSE old_stop_elapsed
    /\ UNCHANGED <<old_instance, old_stop_step, old_children,
                   restart_pid_file, restart_pc, notXVars>>

\* ------------------------------------------------------------------------
\* table_and_region_state_detection.py: Table.update_state and
\* DivisionStateTracker.update_state
\* ------------------------------------------------------------------------
STATE_DEBOUNCE_SECONDS == 1    \* line 129

\* STATE_DEBOUNCE_SECONDS in ticks of current_time
DebounceTicks == STATE_DEBOUNCE_SECONDS * TicksPerSecond

\* persons of one class counted in an area in one frame
Counts == 0..1

\* a debounce test that lets every repeated candidate through
DebounceOverAtOnce(current_time, pending_state_start) == TRUE

\* lines 258 and 331: current_time - self.pending_state_start >=
\* STATE_DEBOUNCE_SECONDS
DebounceOver(current_time, pending_state_start) ==
    current_time - pending_state_start >= DebounceTicks

\* Table.determine_state (lines 239-247)
TableDetermineState(customers_present, waiters_present) ==
    IF customers_present = 0 /\ waiters_present = 0 THEN "IDLE"
    ELSE IF customers_present > 0 /\ waiters_present = 0 THEN "BUSY"
    ELSE IF waiters_present > 0 THEN "CLEANING"
    ELSE "IDLE"

\* DivisionStateTracker.determine_state (lines 311-320)
DivisionDetermineState(walking_area_waiters, service_area_waiters) ==
    LET total_waiters == walking_area_waiters + service_area_waiters IN
    IF total_waiters = 0 THEN "red"
    ELSE IF service_area_waiters > 0 THEN "yellow"
    ELSE "green"

\* Table.__init__ (lines 217-226); "None" and -1 stand for None
NewTable ==
    [state |-> "IDLE", customers_present |-> 0, waiters_present |-> 0,
     pending_state |-> "None", pending_state_start |-> -1,
     state_transitions |-> << >>]

\* DivisionStateTracker.__init__ (lines 305-309)
NewDivisionTracker ==
    [current_state |-> "red", pending_state |-> "None",
     pending_state_start |-> -1, state_transitions |-> << >>]

\* Table.update_state (lines 249-273): the object afterwards and the value
\* returned
TableUpdateState(tb, current_time) ==
    LET new_state == TableDetermineState(tb.customers_present,
                                         tb.waiters_present) IN
    IF new_state # tb.state
    THEN IF tb.pending_state # new_state
         THEN [obj |-> [tb EXCEPT !.pending_state = new_state,
                                  !.pending_state_start = current_time],
               ret |-> FALSE]
         ELSE IF DebounceOver(current_time, tb.pending_state_start)
              THEN [obj |-> [tb EXCEPT
                               !.state = new_state,
                               !.pending_state = "None",
                               !.pending_state_start = -1,
                               !.state_transitions =
                                   Append(@, [time |-> current_time,
                                              from |-> tb.state,
                                              to |-> new_state])],
                    ret |-> TRUE]
              ELSE [obj |-> tb, ret |-> FALSE]
    ELSE [obj |-> [tb EXCEPT !.pending_state = "None",
                             !.pending_state_start = -1],
          ret |-> FALSE]

\* DivisionStateTracker.update_state (lines 322-346)
DivisionUpdateState(tr, walking_area_waiters, service_area_waiters, current_time) ==
    LET new_state == DivisionDetermineState(walking_area_waiters,
                                            service_area_waiters) IN
    IF new_state # tr.current_state
    THEN IF tr.pending_state # new_state
         THEN [obj |-> [tr EXCEPT !.pending_state = new_state,
                                  !.pending_state_start = current_time],
               ret |-> FALSE]
         ELSE IF DebounceOver(current_time, tr.pending_state_start)
              THEN [obj |-> [tr EXCEPT
                               !.current_state = new_state,
                               !.pending_state = "None",
                               !.pending_state_start = -1,
                               !.state_transitions =
                                   Append(@, [time |-> current_time,
                                              from |-> tr.current_state,
                                              to |-> new_state])],
                    ret |-> TRUE]
              ELSE [obj |-> tr, ret |-> FALSE]
    ELSE [obj |-> [tr EXCEPT !.pending_state = "None",
                             !.pending_state_start = -1],
          ret |-> FALSE]

NoHist == [determined |-> "None", since |-> 0, returned |-> FALSE]

\* the state determined at this update, the time of the first of the
\* updates in a row that determined it, and the value update_state returned
NextHist(h, determined, current_time, returned) ==
    [determined |-> determined,
     since |-> IF determined = h.determined THEN h.since ELSE current_time,
     returned |-> returned]

\* the variables of this part while another part is modelled
TIdle ==
    /\ track_clock = 0
    /\ tracked_table = NewTable
    /\ division_tracker = NewDivisionTracker
    /\ table_hist = NoHist
    /\ division_hist = NoHist

TInit ==
    /\ track_clock = 0
    /\ tracked_table = NewTable
    /\ division_tracker = NewDivisionTracker
    /\ table_hist = NoHist
    /\ division_hist = NoHist

\* one processed frame (lines 1742-1772): current_time = time.time(),
\* update_counts (lines 234-237) from the detections, table.update_state,
\* then division_tracker.update_state
ProcessFrame(dt, customers, waiters, walking_waiters, service_waiters) ==
    /\ track_clock + dt <= MaxTrackTime
    /\ track_clock' = track_clock + dt
    /\ LET current_time == track_clock + dt
           counted == [tracked_table EXCEPT !.customers_present = customers,
                                            !.waiters_present = waiters]
           t == TableUpdateState(counted, current_time)
           d == DivisionUpdateState(division_tracker, walking_waiters,
                                    service_waiters, current_time)
       IN /\ tracked_table' = t.obj
          /\ division_tracker' = d.obj
          /\ table_hist' = NextHist(table_hist,
                                    TableDetermineState(customers, waiters),
                                    current_time, t.ret)
          /\ division_hist' = NextHist(division_hist,
                                       DivisionDetermineState(walking_waiters,
                                                              service_waiters),
                                       current_time, d.ret)
    /\ UNCHANGED notTVars

\* ------------------------------------------------------------------------
\* is_in_capture_window as a function of the clock and the configuration
\* ------------------------------------------------------------------------
\* capture_windows of system_config.json: the default, a back-to-back pair, an
\* overlapping pair, a single window and none
WinConfigs ==
    { << Window(11, 30, 14, 0), Window(17, 30, 22, 0) >>,
      << Window(11, 30, 14, 0), Window(14, 0, 22, 0) >>,
      << Window(11, 30, 14, 0), Window(13, 0, 22, 0) >>,
      << Window(17, 30, 22, 0) >>,
      << >> }

WinHours == {0, 11, 13, 14, 17, 21, 22, 23}
WinMinutes == {0, 29, 30, 59}
WinSeconds == {0, 59}

\* datetime.now() as seconds since midnight
WinClock == win_hour * 3600 + win_minute * 60 + win_second

\* the variables of this part while the service is modelled
WinIdle ==
    /\ win_windows = << >>
    /\ win_hour = 0 /\ win_minute = 0 /\ win_second = 0
    /\ win_pc = "idle"
    /\ win_result = NoneW

WinInit ==
    /\ win_windows \in WinConfigs
    /\ win_hour \in WinHours
    /\ win_minute \in WinMinutes
    /\ win_second \in WinSeconds
    /\ win_pc = "call"
    /\ win_result = NoneW

\* one call of is_in_capture_window (lines 187-210)
WinCall ==
    /\ win_pc = "call"
    /\ win_result' = is_in_capture_window(win_windows, WinClock)
    /\ win_pc' = "done"
    /\ UNCHANGED <<win_windows, win_hour, win_minute, win_second, notWinVars>>

\* the wall clock moves before the next call
WinTick ==
    /\ win_pc = "done"
    /\ win_hour' \in WinHours
    /\ win_minute' \in WinMinutes
    /\ win_second' \in WinSeconds
    /\ win_pc' = "call"
    /\ win_result' = NoneW
    /\ UNCHANGED <<win_windows, notWinVars>>

\* the service is not started in this specification
SvcIdle ==
    /\ now = 0
    /\ CAPTURE_WINDOWS = << >>
    /\ pc = [t \in Threads |-> "unstarted"]
    /\ ret = [t \in Threads |-> "none"]
    /\ wake = [t \in Threads |-> 0]
    /\ running = FALSE
    /\ capture_process = 0
    /\ current_capture_window = NoneW
    /\ capture_lock = "free"
    /\ proc = [p \in ProcIds |-> NoProc]
    /\ processing_process = "none"
    /\ pid_file = "none"
    /\ schedNow = 0
    /\ schedActive = NoneW
    /\ svcWin = [t \in Threads |-> NoneW]
    /\ scpStart = 0
    /\ scpHandle = 0
    /\ status = [capture_running |-> FALSE, processing_running |-> FALSE]
    /\ sigCount = 0
    /\ sigAt = "none"
    /\ stopCtx = "none"
    /\ sinceExit = 0

WinSpecInit == WinInit /\ SvcIdle /\ QIdle /\ RIdle /\ DIdle /\ BIdle /\ SIdle
    /\ KIdle /\ CIdle /\ MIdle /\ PIdle /\ OIdle /\ XIdle /\ TIdle
WinNext == WinCall \/ WinTick
WinSpec == WinSpecInit /\ [][WinNext]_vars

\* process_with_queue on its own
QSpecInit == QInit /\ SvcIdle /\ WinIdle /\ RIdle /\ DIdle /\ BIdle /\ SIdle
    /\ KIdle /\ CIdle /\ MIdle /\ PIdle /\ OIdle /\ XIdle /\ TIdle

QNext ==
    \/ AddJob \/ StartWorker \/ StartMonitor \/ WaitJoin \/ WaitReturn
    \/ \E t \in WorkerSlots :
          \/ WorkerLoop(t) \/ WorkerGet(t) \/ WorkerGetEmpty(t)
          \/ WorkerCheck(t) \/ WorkerProcessed(t)
    \/ GpuStop \/ GpuNoMetrics \/ GpuEmergency \/ GpuEmergencyReduce
    \/ GpuScaleDown \/ GpuScaleUp \/ GpuHold \/ GpuSleepDone

QSpec == QSpecInit /\ [][QNext]_vars

\* every thread that can run does run, and every analysis runner exits
QFairSpec ==
    /\ QSpec
    /\ \A t \in WorkerSlots : WF_vars(WorkerStep(t))
    /\ WF_vars(GpuStep)
    /\ WF_vars(MainStep)

\* a run of three videos on a machine allowed two workers, watched long
\* enough for the monitor to scale up twice (scale_ups counts against
\* MaxScaleUps, so starting one lower grants the second scale-up)
QScaleInit ==
    /\ min_workers = 1
    /\ max_workers = 2
    /\ n_jobs = MaxJobs + 1
    /\ job_queue = {}
    /\ unfinished_tasks = 0
    /\ current_worker_count = 0
    /\ stop_event = FALSE
    /\ jobs_completed = 0 /\ jobs_failed = 0
    /\ worker = [t \in WorkerSlots |-> NoWorker]
    /\ handed = [j \in Jobs |-> 0]
    /\ since_scale = SCALE_COOLDOWN_SECONDS
    /\ scale_ups = 0 - 1
    /\ since_emergency = EMERGENCY_COOLDOWN
    /\ gpu_pc = "unstarted"
    /\ q_pc = "add_jobs"

QScaleSpecInit == QScaleInit /\ SvcIdle /\ WinIdle /\ RIdle /\ DIdle /\ BIdle
    /\ SIdle /\ KIdle /\ CIdle /\ MIdle /\ PIdle /\ OIdle /\ XIdle /\ TIdle

QScaleSpec == QScaleSpecInit /\ [][QNext]_vars

RSpecInit == RInit /\ SvcIdle /\ WinIdle /\ QIdle /\ DIdle /\ BIdle /\ SIdle
    /\ KIdle /\ CIdle /\ MIdle /\ PIdle /\ OIdle /\ XIdle /\ TIdle

RNext ==
    \/ \E r \in Runners :
          \/ \E f \in VideoFiles : RunnerInvoke(r, f)
          \/ RunnerAbort(r) \/ RunnerCheck(r) \/ RunnerNoOutput(r)
          \/ RunnerInsert(r) \/ RunnerNoFrame(r)
          \/ RunnerLogDivision(r) \/ RunnerLogTable(r) \/ RunnerFinish(r)
    \/ RTick

RSpec == RSpecInit /\ [][RNext]_vars

DSpecInit == DInit /\ SvcIdle /\ WinIdle /\ QIdle /\ RIdle /\ BIdle /\ SIdle
    /\ KIdle /\ CIdle /\ MIdle /\ PIdle /\ OIdle /\ XIdle /\ TIdle

DNext == GetProcessedVideos \/ DiscoverVideos

DSpec == DSpecInit /\ [][DNext]_vars

BSpecInit == BInit /\ SvcIdle /\ WinIdle /\ QIdle /\ RIdle /\ DIdle /\ SIdle
    /\ KIdle /\ CIdle /\ MIdle /\ PIdle /\ OIdle /\ XIdle /\ TIdle

\* a store that accepts every insert and every commit
BNext ==
    AddDivisionState({"ok"}) \/ AddTableState({"ok"}) \/ FlushAll({"ok"})

BSpec == BSpecInit /\ [][BNext]_vars

\* a store whose inserts and commits can fail, and a caller that goes on
\* after the exception
BFailNext ==
    \/ AddDivisionState({"ok", "insert", "commit"})
    \/ AddTableState({"ok", "insert", "commit"})
    \/ FlushAll({"ok", "insert", "commit"})

BFailSpec == BSpecInit /\ [][BFailNext]_vars


SSpecInit ==
    SInit /\ supabase_env = TRUE /\ SvcIdle /\ WinIdle /\ QIdle /\ RIdle /\ DIdle /\ BIdle /\ KIdle
    /\ CIdle /\ MIdle /\ PIdle /\ OIdle /\ XIdle /\ TIdle

SNext ==
    \/ \E mode \in {"hourly", "full"} : SyncStart(mode)
    \/ SyncSelect
    \/ \E outcome \in {"accepted", "rejected"} : UploadBatch(outcome)
    \/ CleanupSyncedData
    \/ LogSyncStatus

SSpec == SSpecInit /\ [][SNext]_vars

\* The replicator in an environment with or without the cloud URL and key
SEnvSpecInit ==
    /\ SInit /\ supabase_env \in BOOLEAN
    /\ SvcIdle /\ WinIdle /\ QIdle /\ RIdle /\ DIdle /\ BIdle /\ KIdle /\ CIdle
    /\ MIdle /\ PIdle /\ OIdle /\ XIdle /\ TIdle

SEnvSpec == SEnvSpecInit /\ [][SNext]_vars


KSpecInit ==
    KInit /\ SvcIdle /\ WinIdle /\ QIdle /\ RIdle /\ DIdle /\ BIdle /\ SIdle
    /\ CIdle /\ MIdle /\ PIdle /\ OIdle /\ XIdle /\ TIdle

KNext ==
    \/ CleanupScreenshots \/ RawDateFolder \/ RawDone
    \/ ResultDateFolder \/ ResultsDone \/ Midnight

KSpec == KSpecInit /\ [][KNext]_vars

\* A recorder run of one camera
CSpecInit == CInit /\ SvcIdle /\ WinIdle /\ QIdle /\ RIdle /\ DIdle /\ BIdle
    /\ SIdle /\ KIdle /\ MIdle /\ PIdle /\ OIdle /\ XIdle /\ TIdle

CNext ==
    \/ \E is_healthy \in BOOLEAN : NetworkCheck(is_healthy)
    \/ \E popen_ok \in BOOLEAN : LoopIteration(popen_ok)
    \/ \E success \in BOOLEAN, ran \in 1..MaxSegment : SegmentEnded(success, ran)
    \/ StopCapture

CSpec == CSpecInit /\ [][CNext]_vars

\* Runs of the migration on a store of the prior version
MSpecInit ==
    /\ MInit
    /\ SvcIdle /\ WinIdle /\ QIdle /\ RIdle /\ DIdle /\ BIdle /\ SIdle
    /\ KIdle /\ CIdle /\ PIdle /\ OIdle /\ XIdle /\ TIdle

MNext == CreateBackup \/ ApplyNewSchema \/ BackfillData \/ VerifyMigration

MSpec == MSpecInit /\ [][MNext]_vars

\* The child processes and their output
PSpecInit ==
    /\ PInit
    /\ SvcIdle /\ WinIdle /\ QIdle /\ RIdle /\ DIdle /\ BIdle /\ SIdle
    /\ KIdle /\ CIdle /\ MIdle /\ OIdle /\ XIdle /\ TIdle

PNext ==
    \E child \in Children :
        Spawn(child) \/ ChildWrites(child) \/ ChildExit(child)

PSpec == PSpecInit /\ [][PNext]_vars

TSpecInit == TInit /\ SvcIdle /\ WinIdle /\ QIdle /\ RIdle /\ DIdle /\ BIdle
    /\ SIdle /\ KIdle /\ CIdle /\ MIdle /\ PIdle /\ OIdle /\ XIdle

TNext ==
    \E dt \in 0..TicksPerSecond, customers, waiters \in Counts,
       walking_waiters, service_waiters \in Counts :
          ProcessFrame(dt, customers, waiters, walking_waiters, service_waiters)

TSpec == TSpecInit /\ [][TNext]_vars

XSpecInit == XInit /\ SvcIdle /\ WinIdle /\ QIdle /\ RIdle /\ DIdle /\ BIdle
    /\ SIdle /\ KIdle /\ CIdle /\ MIdle /\ PIdle /\ OIdle /\ TIdle

XNext ==
    \/ RestartKill \/ RestartWake \/ RestartStart
    \/ OldStopCapture \/ OldStopProcessing \/ OldStopJoin
    \/ OldStopHandler \/ OldStopFinally \/ RestartTick

XSpec == XSpecInit /\ [][XNext]_vars

\* every process goes on and time passes
XFairSpec == XSpec /\ WF_vars(XNext)

OSpecInit == OInit /\ SvcIdle /\ WinIdle /\ QIdle /\ RIdle /\ DIdle /\ BIdle
    /\ SIdle /\ KIdle /\ CIdle /\ MIdle /\ PIdle /\ XIdle /\ TIdle

ONext ==
    \/ OrchestratorDiscover \/ OrchestratorDone
    \/ \E g \in Finalized :
          \/ SegmentRunnerStart(g) \/ SegmentRunnerInsert(g)
          \/ SegmentRunnerFinish(g) \/ SegmentRunnerKilled(g)

OSpec == OSpecInit /\ [][ONext]_vars

\* the orchestrator is run again and again and every runner that is not
\* killed goes on; the kills are MaxRunnerFailures at most
OFairSpec ==
    /\ OSpec
    /\ WF_vars(OrchestratorDiscover) /\ WF_vars(OrchestratorDone)
    /\ \A g \in Finalized :
          /\ WF_vars(SegmentRunnerStart(g))
          /\ WF_vars(SegmentRunnerInsert(g))
          /\ WF_vars(SegmentRunnerFinish(g))

\* ------------------------------------------------------------------------
\* The service: SurveillanceService.__init__ (lines 131-150), then start()
\* ------------------------------------------------------------------------
Init ==
    /\ now \in StartTimes
    /\ CAPTURE_WINDOWS \in WindowConfigs
    /\ pc = [t \in Threads |-> IF t = "main" THEN "start" ELSE "unstarted"]
    /\ ret = [t \in Threads |-> "none"]
    /\ wake = [t \in Threads |-> 0]
    /\ running = FALSE
    /\ capture_process = 0
    /\ current_capture_window = NoneW
    /\ capture_lock = "free"
    /\ proc = [p \in ProcIds |-> NoProc]
    /\ processing_process = "none"
    /\ pid_file \in {"none", "stale"} \cup LivePidFiles
    /\ schedNow = 0
    /\ schedActive = NoneW
    /\ svcWin = [t \in Threads |-> NoneW]
    /\ scpStart = 0
    /\ scpHandle = 0
    /\ status = [capture_running |-> FALSE, processing_running |-> FALSE]
    /\ sigCount = 0
    /\ sigAt = "none"
    /\ stopCtx = "none"
    /\ sinceExit = 0
    /\ WinIdle
    /\ QIdle
    /\ RIdle
    /\ DIdle
    /\ BIdle
    /\ SIdle
    /\ KIdle
    /\ CIdle
    /\ MIdle
    /\ PIdle
    /\ OIdle
    /\ XIdle
    /\ TIdle

Next ==
    \/ Start \/ StartProcessing
    \/ \E t \in Threads : SvcEnter(t) \/ SvcExit(t)
    \/ SchedTop \/ SchedCmp \/ SchedAfterEnd \/ SchedAfterMismatch
    \/ SchedPauseDone \/ SchedProc
    \/ ScpCheck \/ ScpTerm \/ ScpWait \/ ScpWaited \/ ScpPoll \/ ScpKill
    \/ ScpWait2 \/ ScpWaited2
    \/ StopBegin \/ StopProc \/ StopProcWaited \/ StopProcWaited2
    \/ StopJoin \/ StopJoinedOthers \/ StopJoinedHealth \/ StopUnlink
    \/ Signal
    \/ HStatus \/ HProcessing
    \/ \E p \in ProcIds : ProcExit(p)
    \/ ProcessingExit
    \/ Advance

Spec == Init /\ [][Next]_vars

TypeOK ==
    /\ now \in 0..MaxTime
    /\ capture_process \in 0..MaxProcs
    /\ capture_lock \in {"free"} \cup Threads

\* ------------------------------------------------------------------------
\* Properties of the service
\* ------------------------------------------------------------------------
\* The scheduler loop is in charge: the service runs and no stop() is under way.
SchedulerInCharge == running /\ stopCtx = "none" /\ Region # "start"

LiveCaptures == {p \in ProcIds : Alive(p)}

StartSeconds(w, t) == (t \div 86400) * 86400 + StartTotalMinutes(w) * 60

\* C1: at no time are two capture processes alive, whatever the interleaving
\* of the scheduler thread, the health-check thread and the signal handler.
C1_AtMostOneCapture == Cardinality(LiveCaptures) <= 1

\* a capture process was started by the health-check thread while the main
\* thread was inside _stop_capture_process waiting on the previous one
C1_Witness ==
    /\ pc["main"] \in {"scp_waiting", "scp_poll"}
    /\ Alive(capture_process)
    /\ ~proc[capture_process].term
    /\ sigCount = 0

C3_KillOnlyAfterTerm ==
    \A p \in ProcIds : proc[p].kill => proc[p].term /\ proc[p].waited

\* C4: more than one scheduler period (30 s) past the leading edge of a
\* capture window a capture process is alive, unless it exited by itself or
\* some process cannot be removed.
C4_CaptureWithinTick ==
    LET w == is_in_capture_window(CAPTURE_WINDOWS, now) IN
    (/\ SchedulerInCharge
     /\ w # NoneW
     /\ now > StartSeconds(w, now) + TickSeconds
     /\ sinceExit = 0
     /\ \A p \in ProcIds : proc[p].st # "stuck")
    => \E p \in ProcIds : Alive(p) /\ proc[p].win = w

\* C5: once a capture process has exited by itself inside its window, the
\* scheduler pass that follows the exit leaves a replacement behind.
C5_ReplacedByNextTick ==
    (/\ SchedulerInCharge
     /\ sinceExit = 3
     /\ capture_process # 0
     /\ InWindow(proc[capture_process].win, now))
    => Alive(capture_process)

Containing(ws, M) ==
    {i \in 1..Len(ws) :
        /\ ws[i].start_hour * 60 + ws[i].start_minute <= M
        /\ M < ws[i].end_hour * 60 + ws[i].end_minute}

NonOverlapping(ws) ==
    \A M \in 0..1439 : Cardinality(Containing(ws, M)) <= 1

\* C7: with M = hour*60+minute the call returns a window exactly when some
\* configured window has start <= M < end, the window it returns is one of
\* those, and for non-overlapping windows it is the only one; otherwise it
\* returns None.  Every call returns.
C7_HalfOpenMembership ==
    LET M == win_hour * 60 + win_minute
        C == Containing(win_windows, M) IN
    win_pc = "done" =>
        /\ (win_result # NoneW) <=> (C # {})
        /\ win_result # NoneW => \E i \in C : win_windows[i] = win_result
        /\ NonOverlapping(win_windows) => \A i \in C : win_windows[i] = win_result

\* the clock is in the end minute of one window and the start minute of the
\* next: the call returns the next one
C7_Witness ==
    /\ win_pc = "done"
    /\ \E i, j \in 1..Len(win_windows) :
          /\ win_hour * 60 + win_minute = EndTotalMinutes(win_windows[i])
          /\ win_hour * 60 + win_minute = StartTotalMinutes(win_windows[j])
          /\ win_result = win_windows[j]
          /\ win_result # win_windows[i]

\* ------------------------------------------------------------------------
\* Properties of the ProcessingQueue
\* ------------------------------------------------------------------------
\* job j has been enqueued
Enqueued(j) == j <= n_jobs /\ (q_pc # "add_jobs" \/ j <= unfinished_tasks)

Holders(j) == {t \in WorkerSlots : worker[t].job = j}

\* C8: wait_for_completion returns in the end, given that every thread that
\* can run does run and every analysis runner exits.
C8_WaitReturns == <>(q_pc = "returned")

C10_WorkerCountInRange ==
    q_pc \in {"join", "join_monitor", "returned"} =>
        /\ min_workers <= current_worker_count
        /\ current_worker_count <= max_workers
        /\ scale_ups = 0 => current_worker_count = min_workers

\* the monitor has scaled up to max_workers, above min_workers
C10_Witness ==
    /\ q_pc = "join"
    /\ scale_ups > 0
    /\ current_worker_count = max_workers
    /\ max_workers > min_workers


\* ------------------------------------------------------------------------
\* C11: a reading of 80 degrees or more is an emergency whatever the time
\* since the last scaling and whatever the scale-down rule says; once the
\* monitor has acted on it the worker count is min_workers, and for the
\* 120 s that follow the count stays there and no worker is added.
\* ------------------------------------------------------------------------
C11_EmergencyToMin ==
    /\ [](gpu_pc = "check" /\ ~stop_event =>
             \A m \in Metrics :
                 m.temperature >= 80 => GpuDecision(m) = "EMERGENCY")
    /\ [](since_emergency < 120 /\ gpu_pc # "emergency" =>
             current_worker_count = min_workers)
    /\ [][since_emergency < 120 =>
             current_worker_count' <= current_worker_count]_vars

\* the monitor sleeps after an emergency that took workers away
C11_Witness ==
    /\ gpu_pc = "cooldown"
    /\ since_emergency = 0
    /\ since_scale = 0
    /\ scale_ups > 0
    /\ current_worker_count = min_workers

\* ------------------------------------------------------------------------
\* C12: a reading makes the monitor add a worker exactly when temperature
\* < 70, utilisation < 70, free memory >= 2 GB, 60 s have passed since the
\* last scaling and the count is below max_workers.
\* ------------------------------------------------------------------------
C12_ScaleUpIff ==
    (gpu_pc = "check" /\ ~stop_event) =>
        \A m \in Metrics :
            GpuDecision(m) = "SCALE_UP" <=>
                /\ m.temperature < 70
                /\ m.gpu_utilization < 70
                /\ m.memory_free >= 20
                /\ since_scale >= 60
                /\ current_worker_count < max_workers

\* ------------------------------------------------------------------------
\* C13: the monitor changes the worker count by SCALE_UP or SCALE_DOWN only
\* when 60 s have passed since the last scaling.  (A SCALE_DOWN needs a
\* count above min_workers, which only a SCALE_UP produces, so the scaling
\* before it is never an emergency or the start of the workers.)
\* ------------------------------------------------------------------------
C13_ScalingCooldown ==
    [][(gpu_pc = "check" /\ current_worker_count' # current_worker_count)
          => since_scale >= 60]_vars

\* ------------------------------------------------------------------------
\* C14: while an earlier segment waits in the queue, no later segment has
\* been handed to process_job.
\* ------------------------------------------------------------------------
C14_PriorityOrder ==
    \A a, b \in Jobs :
        (JobPriority(a) < JobPriority(b) /\ a \in job_queue) => handed[b] = 0

\* ------------------------------------------------------------------------
\* C15: a runner that exits with code 2 is not counted in jobs_failed.
\* ------------------------------------------------------------------------
C15_SkipNotFailure ==
    [][\A t \in WorkerSlots :
          (worker[t].pc = "process" /\ worker'[t].pc = "loop"
             /\ process_job(2)) => jobs_failed' = jobs_failed]_vars


\* ------------------------------------------------------------------------
\* C16: a runner started on a segment that already has a session row leaves
\* sessions, division_states and table_states as they are, and when it has
\* its configuration, its models and the opened video it exits with code 2.
\* ------------------------------------------------------------------------
C16_DuplicateSkip ==
    /\ [](\A r \in Runners :
             runner[r].had_row =>
                 \/ runner[r].pc = "main"
                 \/ /\ runner[r].pc = "exited"
                    /\ \/ runner[r].exit_code = 2
                       \/ runner[r].cause = "environment")
    /\ [][\A r \in Runners :
             (runner[r].had_row /\ runner'[r] # runner[r]) =>
                 UNCHANGED <<sessions, division_states, table_states>>]_vars

\* a runner has skipped a segment that another runner had processed
C16_Witness ==
    \E r \in Runners :
        /\ runner[r].had_row
        /\ runner[r].pc = "exited"
        /\ runner[r].exit_code = 2
        /\ Len(division_states) + Len(table_states) > 0
        /\ \E row \in sessions :
              /\ row.camera_id = runner[r].camera_id
              /\ row.video_file = runner[r].video
              /\ row.end_time # 0

\* ------------------------------------------------------------------------
\* C17: the sessions table never holds two rows with the same camera_id and
\* video filename.
\* ------------------------------------------------------------------------
C17_OneSessionPerSegment ==
    \A row1, row2 \in sessions :
        (row1.camera_id = row2.camera_id /\ row1.video_file = row2.video_file)
            => row1.session_id = row2.session_id


\* ------------------------------------------------------------------------
\* discover_videos: what it emitted, and what a segment is
\* ------------------------------------------------------------------------
Emitted ==
    UNION {{videos_by_camera[c][i] : i \in 1..Len(videos_by_camera[c])} :
              c \in DOMAIN videos_by_camera}

\* a segment: a file of a camera in a date directory
Segments == {f \in video_files : f.name.camera # "" /\ f.dir # 0}

\* ------------------------------------------------------------------------
\* C18: a segment that discover_videos emits lies in a date directory
\* strictly earlier than today.
\* ------------------------------------------------------------------------
C18_OnlyBeforeToday ==
    d_pc = "done" => \A f \in Emitted \cap Segments : f.dir < today

\* ------------------------------------------------------------------------
\* C19: with the database read and no camera filter, discover_videos emits
\* exactly the segments dated before today whose (camera_id, filename) has
\* no session row, each camera's in ascending order of filename timestamp.
\* ------------------------------------------------------------------------
C19_ExactlyUnprocessedPast ==
    (d_pc = "done" /\ db_state = "ok" /\ camera_filter = {}) =>
        /\ Emitted \cap Segments =
              {f \in Segments :
                  /\ f.dir < today
                  /\ SessionRowOf(f.name) \notin session_rows}
        /\ \A c \in DOMAIN videos_by_camera :
              \A i, j \in 1..Len(videos_by_camera[c]) :
                  i < j => StampLeq(extract_timestamp(videos_by_camera[c][i].name),
                                    extract_timestamp(videos_by_camera[c][j].name))


\* ------------------------------------------------------------------------
\* C20: after every call each buffer holds fewer than batch_size rows; the
\* rows committed followed by the rows pending are the rows added, each
\* once and in the order of the calls; after flush_all nothing is pending.
\* ------------------------------------------------------------------------
C20_BatchWriterKeepsRows ==
    last_call # "idle" =>
        LET division == stored_division_states \o division_states_buffer
            table == stored_table_states \o table_states_buffer
        IN /\ Len(division_states_buffer) < batch_size
           /\ Len(table_states_buffer) < batch_size
           /\ Len(division) = Len(added_division)
           /\ \A i \in 1..Len(division) :
                 /\ division[i].frame_number = added_division[i].frame_number
                 /\ division[i].walking_waiters = added_division[i].walking_waiters
                 /\ division[i].service_waiters = added_division[i].service_waiters
           /\ Len(table) = Len(added_table)
           /\ \A i \in 1..Len(table) :
                 /\ table[i].frame_number = added_table[i].frame_number
                 /\ table[i].table_id = added_table[i].table_id
           /\ last_call = "flush_all" =>
                 /\ division_states_buffer = << >>
                 /\ table_states_buffer = << >>
                 /\ Len(stored_division_states) = Len(added_division)
                 /\ Len(stored_table_states) = Len(added_table)

\* five adds with batch_size 2: two full batches and a rest that flush_all
\* has committed
C20_Witness ==
    /\ last_call = "flush_all"
    /\ batch_size = 2
    /\ Len(added_division) = 5
    /\ Len(stored_division_states) = 5
    /\ total_commits = 3

\* ------------------------------------------------------------------------
\* C21: a flush that raises makes nothing of its batch visible, then or
\* later: every commit makes at most batch_size rows visible, no added row
\* is stored twice, and after the exception the rows of the batch are still
\* in the buffer.
\* ------------------------------------------------------------------------
C21_FlushAtomic ==
    last_call # "idle" =>
        /\ last_commit <= batch_size
        /\ \A i, j \in 1..Len(stored_division_states) :
              stored_division_states[i].frame_number
                 = stored_division_states[j].frame_number => i = j
        /\ \A i, j \in 1..Len(stored_table_states) :
              stored_table_states[i].frame_number
                 = stored_table_states[j].frame_number => i = j
        /\ raised =>
              /\ last_call = "add_division_state" =>
                    Len(division_states_buffer) >= batch_size
              /\ last_call = "add_table_state" =>
                    Len(table_states_buffer) >= batch_size

\* rows of the local table that a batch of fetched records stands for
RowsOf(table_name, batch) ==
    { i \in 1..Len(local_db[table_name]) :
         \E k \in 1..Len(batch) :
            batch[k].frame_number = local_db[table_name][i].frame_number }

\* batches of the event tables in this run, by what the cloud answered
EventBatches(outcome) ==
    { i \in 1..Len(batch_log) :
         batch_log[i].table \in EventTables /\ batch_log[i].outcome = outcome }

\* ------------------------------------------------------------------------
\* C22: synced_to_cloud goes from 0 to 1 only in the step that follows an
\* accepted cloud insert of the batch holding the row, and no row of a
\* batch the cloud rejected is marked synced.
\* ------------------------------------------------------------------------
C22_MarkOnlyAfterAck ==
    /\ [](\A e \in EventBatches("rejected") :
             \A i \in RowsOf(batch_log[e].table, batch_log[e].batch) :
                local_db[batch_log[e].table][i].synced_to_cloud = 0)
    /\ [][\A t \in EventTables : \A i \in 1..Len(local_db[t]) :
             (/\ local_db[t][i].synced_to_cloud = 0
              /\ \E j \in 1..Len(local_db'[t]) :
                    /\ local_db'[t][j].frame_number = local_db[t][i].frame_number
                    /\ local_db'[t][j].synced_to_cloud = 1)
             => /\ sync_pc = t /\ batch_start >= 0
                /\ batch_log'[Len(batch_log')].outcome = "accepted"
                /\ \E k \in 1..Len(batch_log'[Len(batch_log')].batch) :
                      batch_log'[Len(batch_log')].batch[k].frame_number
                         = local_db[t][i].frame_number]_vars

\* a run has ended in which the cloud rejected a batch of table_states and
\* accepted another
C22_Witness ==
    /\ sync_pc = "done"
    /\ \E e \in EventBatches("rejected") : batch_log[e].table = "table_states"
    /\ \E e \in EventBatches("accepted") : batch_log[e].table = "table_states"

\* ------------------------------------------------------------------------
\* C23: once the cloud has accepted a batch of division_states or
\* table_states rows, the rows of that batch have synced_to_cloud = 1.
\* ------------------------------------------------------------------------
C23_AcceptedBatchMarked ==
    \A e \in EventBatches("accepted") :
       \A i \in RowsOf(batch_log[e].table, batch_log[e].batch) :
          local_db[batch_log[e].table][i].synced_to_cloud = 1

\* ------------------------------------------------------------------------
\* C24: the status row of a run: errors counts the batches the cloud
\* rejected, status is 'partial' with an error message when a batch was
\* rejected and 'success' without one when none was; every batch of the run
\* was sent whatever became of the batches before it.
\* ------------------------------------------------------------------------
C24_StatusCountsRejected ==
    sync_status.status # "none" =>
        LET rejected == {i \in 1..Len(batch_log) :
                            batch_log[i].outcome = "rejected"}
        IN /\ stats.errors = Cardinality(rejected)
           /\ sync_status.status = (IF rejected = {} THEN "success"
                                                     ELSE "partial")
           /\ (sync_status.error_message = "none") = (rejected = {})
           /\ \A t \in {SyncTables[i] : i \in 1..4} :
                 LET sent == {i \in 1..Len(batch_log) : batch_log[i].table = t}
                 IN sent # {} =>
                       \A i \in 1..Len(local_db[t]) :
                          Selects(t, local_db[t][i], sync_mode, sync_now) =>
                             \E b \in sent : \E k \in 1..Len(batch_log[b].batch) :
                                batch_log[b].batch[k]
                                   = [c \in SelectedColumns(t) |->
                                         local_db[t][i][c]]

\* ------------------------------------------------------------------------
\* C25: after a run with three batches of table_states of which the cloud
\* rejected the second, the rows of the first and the third are marked
\* synced and those of the second are not; and every row of a rejected
\* batch is selected by the hourly run one hour later.
\* ------------------------------------------------------------------------
C25_RejectedRetriedNextRun ==
    sync_pc = "done" =>
        LET tb == SelectSeq(batch_log,
                            LAMBDA e : e.table = "table_states")
        IN /\ (/\ Len(tb) = 3
               /\ tb[1].outcome = "accepted" /\ tb[2].outcome = "rejected"
               /\ tb[3].outcome = "accepted")
              => \A n \in 1..3 :
                    \A i \in RowsOf("table_states", tb[n].batch) :
                       local_db["table_states"][i].synced_to_cloud
                          = (IF n = 2 THEN 0 ELSE 1)
           /\ \A e \in EventBatches("rejected") :
                 \A i \in RowsOf(batch_log[e].table, batch_log[e].batch) :
                    Selects(batch_log[e].table, local_db[batch_log[e].table][i],
                            "hourly", sync_now + 1)

\* ------------------------------------------------------------------------
\* C26: every row cleanup_synced_data deleted had synced_to_cloud = 1 and
\* was created more than the retention period before the deletion.
\* ------------------------------------------------------------------------
C26_RetentionFloor ==
    \A d \in deleted_rows :
       /\ d.row.synced_to_cloud = 1
       /\ d.at - d.row.created_at > RetentionHours

\* a run has deleted a row while an unsynced row as old and a synced row
\* an hour old are still in the table
C26_Witness ==
    /\ \E d \in deleted_rows : d.table = "table_states"
    /\ \E i, j \in 1..Len(local_db["table_states"]) :
          /\ local_db["table_states"][i].synced_to_cloud = 0
          /\ local_db["table_states"][i].created_at = 0
          /\ local_db["table_states"][j].synced_to_cloud = 1
          /\ local_db["table_states"][j].created_at = 24

\* ------------------------------------------------------------------------
\* C27: no raw video folder is deleted on the day of its date or on the day
\* after it, whatever the target and the folders, and a cleanup that has
\* returned without reaching its target has left those folders in place.
\* ------------------------------------------------------------------------
C27_TodayKept ==
    /\ \A d \in k_deleted : d.today - d.date \notin {0, 1}
    /\ \A f \in raw_folders \cup {[date |-> d.date, camera |-> d.camera] :
                                     d \in k_deleted} :
          k_today - f.date \in {0, 1} => f \in raw_folders

\* the cleanup has returned short of its target, having deleted a folder
\* and kept a folder of today and a folder of yesterday
C27_Witness ==
    /\ k_pc = "returned"
    /\ free_gb + total_freed_gb < target_free_gb
    /\ k_deleted # {}
    /\ \E f, g \in raw_folders :
          k_today - f.date = 0 /\ k_today - g.date = 1

\* C28: start() refuses when the PID file names a live process: the PID file,
\* running, the monitoring thread, the capture processes and the processing
\* process are left as they were and start() returns; when the PID file names
\* a dead process, start() goes on and the PID file holds its own pid.
C28_StartRefusesLive ==
    [][Start =>
         /\ pid_file \in LivePidFiles =>
               /\ pc'["main"] = "refused"
               /\ pc'["health"] = "unstarted"
               /\ UNCHANGED <<pid_file, running, proc, capture_process,
                              processing_process>>
         /\ pid_file = "stale" =>
               /\ pid_file' = "self"
               /\ pc'["main"] # "refused"]_vars

\* C29: in every stop(), whichever way it was entered, no capture process is
\* alive any more when the processing process is asked to stop, the PID file
\* is removed only when neither a capture process nor the processing process
\* is alive, and the PID file is absent when stop() returns.
C29_StopOrder ==
    /\ [][StopProc /\ ProcessingAlive => LiveCaptures = {}]_vars
    /\ [][StopUnlink =>
            /\ LiveCaptures = {}
            /\ ~ProcessingAlive
            /\ pid_file' = "none"]_vars

RECURSIVE RequestedSeconds(_)
RequestedSeconds(cmds) ==
    IF cmds = << >> THEN 0 ELSE Head(cmds).t + RequestedSeconds(Tail(cmds))

\* C30: every ffmpeg command of a recorder run asks for
\* min(segment length, duration - elapsed) seconds, so no segment is asked to
\* run past the end of the run and the seconds asked for add up to at most
\* the duration.
C30_SegmentWithinDuration ==
    /\ \A i \in DOMAIN ffmpeg_cmds :
          /\ ffmpeg_cmds[i].t = ffmpeg_cmds[i].current_segment_duration
          /\ ffmpeg_cmds[i].elapsed_total + ffmpeg_cmds[i].t <= duration_seconds
    /\ RequestedSeconds(ffmpeg_cmds) <= duration_seconds

\* C31: a recorder run ends only when the duration has elapsed or a stop was
\* requested: neither an unreachable camera at the session start nor a
\* capture subprocess that cannot be started or that failed ends it, the
\* loop goes on with the next segment after the pause.
C31_LoopEndsOnlyAtDuration ==
    [][c_pc' = "returned" =>
         /\ c_pc = "loop"
         /\ ~is_capturing \/ session_clock >= duration_seconds]_vars

\* C32: a replicator run in an environment without the cloud URL or key ends
\* as a non-error outcome: exit status 0, no failure logged by the sync loop
\* of the service, and the local store as it was.
C32_NoCredentialsNoError ==
    [][\A mode \in {"hourly", "full"} :
          SyncStart(mode) /\ ~supabase_env =>
              /\ sync_returncode' = 0
              /\ sync_report' # "failed"
              /\ local_db' = local_db]_vars

\* the store is fully migrated
Migrated(st) ==
    /\ RequiredTables \subseteq st.tables
    /\ \A t \in LocationTables : "location_id" \in st.columns[t]
    /\ \A t \in SyncedTables : "synced_to_cloud" \in st.columns[t]
    /\ \A t \in LocationTables : ~st.no_location[t]

\* C33: a run of the migration on a store of the prior version ends with the
\* store fully migrated, a second run changes nothing, and a run that was
\* asked for a backup does not change the store before the copy was written.
C33_MigrationComplete ==
    /\ migrations >= 1 /\ m_pc \in {"done", "failed"} => Migrated(store)
    /\ migrations = 2 => store = store_at_start
    /\ backup /\ store # store_at_start => backup_written

\* C34: no long-running child process writes into a pipe its parent never
\* reads, so none of them is ever blocked on a full pipe buffer.
C34_NoChildBlockedOnPipe ==
    \A child \in Children :
        /\ children[child].st # "blocked"
        /\ children[child].output = "PIPE" => ParentReads(child)

\* stop() has set running to False
StopBegun == ~running /\ pc["main"] # "start"

\* C35: once stop() has set running to False no capture process and no
\* processing process is spawned, and when stop() returns none is alive.
C35_NoSpawnAfterStop ==
    /\ [][StopBegun =>
            /\ \A p \in ProcIds :
                  proc'[p].st = "alive" => proc[p].st = "alive"
            /\ processing_process' = "alive" =>
                  processing_process = "alive"]_vars
    /\ [][StopUnlink => LiveCaptures = {} /\ ~ProcessingAlive]_vars


\* C36: at every instant the worker threads that are alive and may still
\* take or run a job number at most current_worker_count, and the analysis
\* runners executing at once number at most max_workers, also after a
\* scale-down followed by a scale-up while the signalled worker still runs
\* its job and the new worker receives the same worker index (a signalled
\* worker finishing its job is not counted: it takes no further job)
LiveWorkers ==
    {t \in WorkerSlots : worker[t].pc \in {"loop", "get", "check", "process"}}

C36_WorkersWithinCount ==
    /\ Cardinality({t \in LiveWorkers : ~OverLimit(t)}) <= current_worker_count
    /\ Cardinality({t \in WorkerSlots : worker[t].pc = "process"}) <= max_workers

\* two live workers carry the same worker index
C36_SameIndexTwice ==
    ~(\E t, u \in LiveWorkers : t # u /\ worker[t].worker_id = worker[u].worker_id)

\* more runners than max_workers
C36_RunnersWithinMax ==
    Cardinality({t \in WorkerSlots : worker[t].pc = "process"}) <= max_workers


\* C37: a segment whose runner ended abnormally after inserting its Session
\* row and before writing end_time is emitted and processed by a later
\* orchestrator run, so once runner failures stop every finalized segment
\* that stays on disk eventually has a Session with end_time set
C37_EverySegmentClosed ==
    <>(\A g \in Finalized : o_sessions[g] = "closed")

\* a runner killed before its INSERT leaves nothing behind: with abnormal
\* ends only there, every segment is closed in the end
C37_ClosedUnlessKilledAfterInsert ==
    []<>(\A g \in Finalized : o_sessions[g] = "open" => o_runner[g] # "none")
       => C37_EverySegmentClosed

\* a row without end_time whose runner is gone is never emitted again
C37_OpenRowReEmitted ==
    [][\A g \in Finalized :
          OrchestratorDiscover /\ o_sessions[g] = "open" /\ o_runner[g] = "none"
             => g \in o_emitted']_vars


\* C38: after a run in which the cloud accepted every batch, the run that
\* follows it (same mode, one hour later, no new local rows) selects none
\* of the division_states and table_states rows the first run sent: an
\* event row is uploaded once at most
C38_NoRowSentAgain ==
    (/\ sync_pc = "done"
     /\ \A e \in 1..Len(batch_log) : batch_log[e].outcome = "accepted")
    => \A e \in 1..Len(batch_log) :
          batch_log[e].table \in EventTables =>
             \A i \in RowsOf(batch_log[e].table, batch_log[e].batch) :
                ~Selects(batch_log[e].table, local_db[batch_log[e].table][i],
                         sync_mode, sync_now + 1)


\* C39: the restart command issued while an instance is running eventually
\* leaves exactly one instance running with a PID file naming it, however
\* long the old instance takes to stop
OneInstanceServing ==
    /\ restart_pc = "serving"
    /\ ~PidAlive(old_instance)
    /\ restart_pid_file = "new"

C39_RestartLeavesOneInstance ==
    old_instance = "running" => <>[]OneInstanceServing

\* the same when no instance was running
C39_StartWhenNoneRunning ==
    old_instance = "none" => <>[]OneInstanceServing

\* the same when the old instance has exited before start() looks
C39_OldGoneBeforeStart ==
    [](restart_pc = "start" => ~PidAlive(old_instance))
       => C39_RestartLeavesOneInstance


\* start() found the PID file of the old instance, which was still
\* stopping, and returned; the old instance has exited since
C39_NoInstanceLeft ==
    ~(restart_pc = "refused" /\ old_instance = "exited"
         /\ restart_pid_file = "none")


\* C40: update_state of a Table and of the DivisionStateTracker changes the
\* reported state, returns True and records one transition only when the
\* state determined differs from the current one and has been the state
\* determined on every update for the debounce period at least; an update
\* that determines the current state clears the pending candidate, and a
\* new candidate restarts the debounce timer
Debounced(old_state, new_state, old_obj, new_obj, hist) ==
    /\ hist.returned = (new_state # old_state)
    /\ new_state # old_state =>
          /\ hist.determined # old_state
          /\ new_state = hist.determined
          /\ track_clock' - hist.since >= DebounceTicks
          /\ new_obj.state_transitions =
                Append(old_obj.state_transitions,
                       [time |-> track_clock', from |-> old_state,
                        to |-> new_state])
    /\ new_state = old_state =>
          new_obj.state_transitions = old_obj.state_transitions
    /\ hist.determined = old_state => new_obj.pending_state = "None"
    /\ hist.determined # old_state /\ old_obj.pending_state # hist.determined =>
          /\ new_state = old_state
          /\ new_obj.pending_state = hist.determined
          /\ new_obj.pending_state_start = track_clock'

C40_DebouncedChange ==
    [][/\ Debounced(tracked_table.state, tracked_table'.state,
                    tracked_table, tracked_table', table_hist')
       /\ Debounced(division_tracker.current_state,
                    division_tracker'.current_state,
                    division_tracker, division_tracker', division_hist')]_vars

\* both objects have changed state after a debounce, the table twice, and
\* a third candidate of the table is pending
C40_Witness ==
    /\ Len(tracked_table.state_transitions) >= 2
    /\ Len(division_tracker.state_transitions) >= 1
    /\ tracked_table.pending_state # "None"
    /\ tracked_table.pending_state_start > 0

====
